---- MODULE Spec2Model ----
(***************************************************************************)
(* The generation job orchestrator of the Go backend: handleGenerate       *)
(* creates Job records in the in-memory store `jobs` (guarded by jobsMu)   *)
(* and starts one goroutine per job (runwareGenerate or mockGenerate);     *)
(* the goroutine submits the task to the provider, polls for the result,   *)
(* downloads the video and writes the terminal status; handleStatus reads  *)
(* a job back.                                                             *)
(*                                                                         *)
(* Go pointers are modelled by indexes into `heap`: heap[p] is the Job     *)
(* struct *Job p points to, jobs maps a job ID to such a pointer, and      *)
(* task[p] holds the locals of the goroutine started for heap[p].          *)
(***************************************************************************)
EXTENDS Integers, Sequences, FiniteSets, TLC

\* ------------------------------------------------------------------------
\* Bounds of the model
\* ------------------------------------------------------------------------
\* Job records the store specification lets handleGenerate create in all.
MaxJobs == 4
\* Entries of the "errors" array of a poll response.
MaxErrors == 1
\* Job records the model-based specification lets handleGenerate create.
MaxModelJobs == 2
\* Jobs the page of the frontend asks for between two starts of the server.
MaxPageJobs == 2
\* Status requests of one poll loop of the page that end without a response.
MaxThrows == 1
\* Poll requests of a job that are counted one by one; further ones leave
\* the count at this number.
MaxPollsCounted == 2

\* ------------------------------------------------------------------------
\* Program constants
\* ------------------------------------------------------------------------
\* for i := 0; i < 120; i++
MaxPollAttempts == 120
\* "numberResults": 1 of the submitted payload: the provider returns at most
\* this many results for the task.
NumberResults == 1
\* if count < 1 || count > 4 { count = 4 }
MinCount == 1
MaxCount == 4
DefaultCount == 4
\* if dur < 1 || dur > 16 { dur = 5 }
MinDuration == 1
MaxDuration == 16
DefaultDuration == 5
\* if req.Duration >= 6 && len(req.OriginalFilenames) > 0
AnchorMinDuration == 6
\* Duration: 4 of the job of the model-based handleGenerate
ModelDuration == 4
\* ------------------------------------------------------------------------
\* The uploads directory (os.Stat, os.ReadFile)
\* ------------------------------------------------------------------------
\* filepath.Join("uploads", fn): Join drops an empty element, so the empty
\* filename names the uploads directory itself.
JoinUploads(fn) == IF fn = "" THEN "uploads" ELSE "uploads/" \o fn

\* Paths os.ReadFile can read.
ReadablePaths == {"uploads/a.jpg", "uploads/b.jpg", "uploads/c.jpg", "uploads/frame.jpg"}
\* Paths that exist (os.Stat succeeds): the files, and the directory itself,
\* which os.ReadFile cannot read.
ExistingPaths == ReadablePaths \cup {"uploads"}

\* os.Stat(p) does not answer "not exist"
StatOK(p) == p \in ExistingPaths
\* os.ReadFile(p) returns no error
ReadOK(p) == p \in ReadablePaths

\* ------------------------------------------------------------------------
\* Static tables
\* ------------------------------------------------------------------------
StyleNames == {"cinematic", "rotating", "lifestyle", "tiktok", "unboxing", "minimal"}

\* styleConfigs; the base prompts are cut to their first sentence.
styleConfigs ==
  [s \in StyleNames |->
     CASE s = "cinematic" -> [Model |-> "google:3@3",   ModelName |-> "Veo 3.1 Fast",
                              Prompt |-> "Cinematic product commercial."]
       [] s = "rotating"  -> [Model |-> "vidu:4@2",     ModelName |-> "Vidu Q3 Turbo",
                              Prompt |-> "Product rotating 360 degrees on a turntable."]
       [] s = "lifestyle" -> [Model |-> "pixverse:1@7", ModelName |-> "PixVerse v5.6",
                              Prompt |-> "Lifestyle product video."]
       [] s = "tiktok"    -> [Model |-> "vidu:4@1",     ModelName |-> "Vidu Q3",
                              Prompt |-> "Viral TikTok product ad."]
       [] s = "unboxing"  -> [Model |-> "vidu:4@2",     ModelName |-> "Vidu Q3 Turbo",
                              Prompt |-> "POV first-person unboxing video."]
       [] s = "minimal"   -> [Model |-> "vidu:4@1",     ModelName |-> "Vidu Q3",
                              Prompt |-> "Minimal clean product video."]]

\* A faulty variant of the fallback below: another style is the default.
StyleConfigOf_Minimal(style) ==
  IF style \in StyleNames THEN styleConfigs[style] ELSE styleConfigs["minimal"]

\* cfg, ok := styleConfigs[style]; if !ok { cfg = styleConfigs["cinematic"] }
StyleConfigOf(style) ==
  IF style \in StyleNames THEN styleConfigs[style] ELSE styleConfigs["cinematic"]

\* The keys of ratioSizes.
ratioSizes == {"9:16", "16:9", "1:1"}

\* ------------------------------------------------------------------------
\* Job IDs
\* ------------------------------------------------------------------------
\* The first 12 characters a UUID string can start with (two of the 16^11).
IDPrefixes == {"3f2a91c4-7b1", "d04e6a58-c93"}

\* uuid.New() for the n-th job created: a UUID is a pair <<first 12
\* characters, rest>>; the generator never returns the same UUID twice
\* (the rest is the serial number here) but any prefix can come up.
NewUUIDs(n) == {<<pre, n>> : pre \in IDPrefixes}

\* uuid.String()[:12]
Truncate(u) == u[1]

\* ------------------------------------------------------------------------
\* Requests to POST /api/generate
\* ------------------------------------------------------------------------
Req(fns, style, ratio, custom, count, dur, cont, last, orig) ==
  [Filenames |-> fns, Style |-> style, Ratio |-> ratio, CustomPrompt |-> custom,
   Count |-> count, Duration |-> dur, IsContinuation |-> cont,
   LastFrameFilename |-> last, OriginalFilenames |-> orig]

\* No request is being handled / has been handled.
NoReq == Req(<<>>, "", "", "", -1, -1, FALSE, "", <<>>)

\* Requests of the store specification: every count case, every validation
\* branch of normal and continuation requests.
StoreRequests ==
  { Req(<<"a.jpg">>, "rotating", "9:16", "", 1, 5, FALSE, "", <<>>),
    Req(<<"a.jpg", "b.jpg">>, "rotating", "16:9", "", 2, 5, FALSE, "", <<>>),
    Req(<<"a.jpg">>, "unboxing", "9:16", "", 0, 5, FALSE, "", <<>>),
    Req(<<"a.jpg">>, "rotating", "9:16", "", 5, 5, FALSE, "", <<>>),
    Req(<<"a.jpg">>, "rotating", "9:16", "", -1, 5, FALSE, "", <<>>),
    Req(<<"a.jpg", "missing.jpg">>, "rotating", "9:16", "", 1, 5, FALSE, "", <<>>),
    Req(<<"missing.jpg", "a.jpg">>, "rotating", "9:16", "", 2, 5, FALSE, "", <<>>),
    Req(<<>>, "rotating", "9:16", "", 1, 5, FALSE, "", <<>>),
    Req(<<>>, "rotating", "9:16", "", 1, 5, TRUE, "frame.jpg", <<"missing.jpg">>),
    Req(<<>>, "rotating", "9:16", "", 1, 8, TRUE, "frame.jpg", <<"missing.jpg">>),
    Req(<<>>, "rotating", "9:16", "", 1, 8, TRUE, "frame.jpg", <<"a.jpg">>),
    Req(<<"missing.jpg">>, "rotating", "9:16", "", 1, 8, TRUE, "frame.jpg", <<"a.jpg", "missing.jpg">>),
    Req(<<>>, "rotating", "9:16", "", 1, 8, TRUE, "missing.jpg", <<"a.jpg">>),
    Req(<<"a.jpg">>, "rotating", "9:16", "", 1, 8, TRUE, "", <<"a.jpg">>) }

\* Requests of the lifecycle specification: one job each, or rejected.
LifeRequests ==
  { Req(<<"a.jpg">>, "rotating", "9:16", "", 1, 5, FALSE, "", <<>>),
    Req(<<"a.jpg", "">>, "rotating", "9:16", "", 1, 5, FALSE, "", <<>>),
    Req(<<"a.jpg", "missing.jpg">>, "rotating", "9:16", "", 1, 5, FALSE, "", <<>>),
    Req(<<>>, "rotating", "9:16", "", 1, 5, FALSE, "", <<>>) }

\* Requests of the scenario specification: those of the lifecycle and a
\* request with two images.
ScenarioRequests ==
  LifeRequests \cup {Req(<<"a.jpg", "b.jpg">>, "rotating", "9:16", "", 1, 5, FALSE, "", <<>>)}

\* Requests of the frame specification: 1 to 4 images with
\* the reveal style, another style and an unknown style, and continuations
\* on both sides of the anchor threshold, with and without original images.
FrameRequests ==
  { Req(<<"a.jpg">>, "rotating", "9:16", "", 1, 5, FALSE, "", <<>>),
    Req(<<"a.jpg">>, "unboxing", "9:16", "", 1, 5, FALSE, "", <<>>),
    Req(<<"a.jpg">>, "vintage", "9:16", "", 1, 5, FALSE, "", <<>>),
    Req(<<"a.jpg">>, "", "9:16", "neon lights", 1, 5, FALSE, "", <<>>),
    Req(<<"a.jpg", "b.jpg">>, "rotating", "9:16", "", 1, 5, FALSE, "", <<>>),
    Req(<<"a.jpg", "b.jpg">>, "unboxing", "9:16", "", 1, 5, FALSE, "", <<>>),
    Req(<<"a.jpg", "b.jpg", "c.jpg">>, "rotating", "9:16", "", 1, 5, FALSE, "", <<>>),
    Req(<<"a.jpg", "b.jpg", "c.jpg">>, "unboxing", "9:16", "", 1, 5, FALSE, "", <<>>),
    Req(<<"c.jpg", "a.jpg", "a.jpg", "b.jpg">>, "minimal", "9:16", "", 1, 5, FALSE, "", <<>>),
    Req(<<"a.jpg", "", "c.jpg">>, "rotating", "9:16", "", 1, 5, FALSE, "", <<>>),
    Req(<<"a.jpg", "b.jpg", "">>, "rotating", "9:16", "", 1, 5, FALSE, "", <<>>),
    Req(<<"a.jpg", "missing.jpg">>, "rotating", "9:16", "", 1, 5, FALSE, "", <<>>),
    Req(<<>>, "rotating", "9:16", "", 1, 5, TRUE, "frame.jpg", <<"a.jpg">>),
    Req(<<>>, "unboxing", "9:16", "", 1, 5, TRUE, "frame.jpg", <<"a.jpg">>),
    Req(<<>>, "rotating", "9:16", "", 1, 0, TRUE, "frame.jpg", <<"a.jpg", "b.jpg">>),
    Req(<<"a.jpg">>, "rotating", "9:16", "", 1, 5, TRUE, "frame.jpg", <<>>),
    Req(<<>>, "rotating", "9:16", "", 1, 6, TRUE, "frame.jpg", <<"a.jpg">>),
    Req(<<>>, "unboxing", "9:16", "", 1, 8, TRUE, "frame.jpg", <<"a.jpg", "b.jpg">>),
    Req(<<"a.jpg">>, "unboxing", "9:16", "", 1, 8, TRUE, "frame.jpg", <<>>),
    Req(<<>>, "cinematic", "9:16", "", 1, 20, TRUE, "frame.jpg", <<"a.jpg">>) }

\* Requests of the range specification: counts, durations and ratios
\* inside, at the ends of and outside the supported ranges.
RangeRequests ==
  { Req(<<"a.jpg">>, "rotating", "9:16", "", 1, 5, FALSE, "", <<>>),
    Req(<<"a.jpg">>, "rotating", "16:9", "", 1, 1, FALSE, "", <<>>),
    Req(<<"a.jpg">>, "rotating", "1:1", "", 4, 16, FALSE, "", <<>>),
    Req(<<"a.jpg">>, "rotating", "", "", 0, 0, FALSE, "", <<>>),
    Req(<<"a.jpg">>, "rotating", "4:3", "", 5, 17, FALSE, "", <<>>),
    Req(<<"a.jpg">>, "rotating", "16:9", "", 1, -3, TRUE, "frame.jpg", <<"a.jpg">>),
    Req(<<>>, "rotating", "9:16", "", 1, 20, TRUE, "frame.jpg", <<"missing.jpg">>),
    Req(<<>>, "rotating", "9:16", "", 1, 20, TRUE, "frame.jpg", <<"a.jpg">>),
    Req(<<"missing.jpg">>, "rotating", "4:3", "", 9, 99, FALSE, "", <<>>) }

\* Requests to the handleGenerate of backend/main.go, whose request has no
\* continuation fields.
MainRequests ==
  { Req(<<"a.jpg">>, "rotating", "9:16", "", 1, 5, FALSE, "", <<>>),
    Req(<<"a.jpg">>, "unboxing", "9:16", "", 1, 5, FALSE, "", <<>>),
    Req(<<"a.jpg">>, "vintage", "9:16", "", 1, 5, FALSE, "", <<>>),
    Req(<<"a.jpg", "b.jpg">>, "unboxing", "9:16", "", 1, 5, FALSE, "", <<>>),
    Req(<<"a.jpg", "b.jpg", "c.jpg">>, "unboxing", "9:16", "", 1, 5, FALSE, "", <<>>),
    Req(<<"a.jpg", "b.jpg">>, "rotating", "9:16", "", 1, 5, FALSE, "", <<>>),
    Req(<<"a.jpg", "b.jpg", "c.jpg">>, "rotating", "9:16", "", 1, 5, FALSE, "", <<>>),
    Req(<<"c.jpg", "a.jpg", "a.jpg", "b.jpg">>, "minimal", "9:16", "", 1, 5, FALSE, "", <<>>),
    Req(<<"a.jpg", "", "c.jpg">>, "rotating", "9:16", "", 1, 5, FALSE, "", <<>>),
    Req(<<"a.jpg", "missing.jpg">>, "rotating", "9:16", "", 1, 5, FALSE, "", <<>>),
    Req(<<>>, "rotating", "9:16", "", 1, 5, FALSE, "", <<>>) }

\* ------------------------------------------------------------------------
\* State
\* ------------------------------------------------------------------------
VARIABLES
  useMock,     \* the package variable useMock, a switch set in the source
  heap,        \* the Job structs allocated so far; a *Job is an index
  jobs,        \* the map jobs: job ID -> *Job
  jobsMu,      \* the RWMutex: who holds the write lock, how many read locks
  task,        \* task[p]: the goroutine started for heap[p] and its locals
  gen,         \* the handleGenerate call in progress and its locals
  genResp,     \* the response handleGenerate sent to its last request
  st,          \* the handleStatus call in progress and its locals
  statusResp,  \* the response handleStatus sent to its last request
  ls,          \* the handleListJobs call in progress and its locals
  listResp,    \* the response handleListJobs sent to its last request
  promptResp,  \* the response handleAutoPrompt sent to its last request
  page         \* the state of the page of the frontend and its calls in progress

vars ==
  <<useMock, heap, jobs, jobsMu, task, gen, genResp, st, statusResp, ls, listResp,
    promptResp, page>>

Terminal == {"completed", "failed"}

\* time.Now().Format(time.RFC3339) at the one moment the model looks at.
Now == "2025-06-01T12:00:00Z"

\* &Job{...} of handleGenerate.
NewJob(id, imagePaths, prompt, style, ratio, dur, model) ==
  [ID |-> id, Status |-> "processing", ImagePaths |-> imagePaths, VideoURL |-> "",
   Prompt |-> prompt, Style |-> style, Ratio |-> ratio, Duration |-> dur,
   Model |-> model, CreatedAt |-> Now, Error |-> ""]

\* No poll request has been answered yet.
NoPoll == [kind |-> "none", messages |-> {}, errors |-> {}, videos |-> {}]

\* Locals of a job's goroutine before `go` has run: its position, loop
\* variable and arguments, the frameImages it builds, and a record of what
\* it was started for and was answered (req, submit, submitVideo, lastPoll,
\* polls, download), and the model of its payload (runwareModel);
\* submitError says that the response read last is the submit response and
\* reports an error.
NewTask ==
  [pc |-> "unstarted", i |-> 0, errMsg |-> "", remoteURL |-> "", localURL |-> "",
   provErr |-> FALSE, frameImages |-> <<>>, req |-> NoReq, submitVideo |-> FALSE,
   lastPoll |-> NoPoll,
   polls |-> 0, download |-> "none", runwareModel |-> "", submit |-> "none",
   submitError |-> FALSE]

\* The write lock is free, or held by handleGenerate, or by the goroutine of
\* heap[p].
NoHolder == <<"none", 0>>
GenHolder == <<"handleGenerate", 0>>
TaskHolder(p) == <<"task", p>>

Unlocked == [writer |-> NoHolder, readers |-> 0]

\* jobsMu.Lock() can return
CanLock == jobsMu.writer = NoHolder /\ jobsMu.readers = 0
\* jobsMu.RLock() can return
CanRLock == jobsMu.writer = NoHolder

GenIdle ==
  [pc |-> "idle", req |-> NoReq, imagePaths |-> <<>>, finalPrompt |-> "", ratio |-> "",
   count |-> 0, dur |-> 0, i |-> 0, jobIDs |-> <<>>, job |-> 0, first |-> 0]

NoGenResp == [code |-> 0, error |-> "", job_ids |-> <<>>, count |-> 0]

StIdle == [pc |-> "idle", id |-> "", job |-> 0, status |-> "", video_url |-> ""]

NoStatusResp == [code |-> 0, id |-> "", status |-> "", video_url |-> "", error |-> ""]

\* handleListJobs is not running: keys are the map keys the range loop has
\* still to visit, list the pointers appended, out the jobs encoded.
LsIdle == [pc |-> "idle", keys |-> {}, list |-> <<>>, k |-> 0, status |-> "", out |-> <<>>]

NoListResp == [code |-> 0, jobs |-> <<>>]

\* No answer of handleAutoPrompt yet; prompt and error are <<>> when the
\* key is absent from the body, llm is what the model runner had answered.
NoPromptResp == [code |-> 0, prompt |-> <<>>, error |-> <<>>, llm |-> "none"]

\* A poll loop of the page before it is started.
NoLoop ==
  [pc |-> "idle", kind |-> "", req |-> NoReq, jobIds |-> <<>>, completed |-> {}, k |-> 0,
   throws |-> 0]

\* The startContinuation call before it is started: the video it was
\* clicked for and the chain of the render it was clicked in.
NoCont == [pc |-> "idle", videoUrl |-> "", jobId |-> "", chain |-> <<>>]

\* The page after its first render: the useState and useRef values that
\* the generation and the chain read or write, and its calls in progress.
PageIdle ==
  [isGenerating |-> FALSE, pollingRef |-> FALSE, videos |-> <<>>, selectedVideo |-> "",
   chain |-> <<>>, isContinuing |-> FALSE, showContinuePanel |-> FALSE,
   continuationFrameFilename |-> "", loop |-> NoLoop, cont |-> NoCont]

Init ==
  /\ useMock \in BOOLEAN
  /\ heap = <<>>
  /\ jobs = <<>>
  /\ jobsMu = Unlocked
  /\ task = <<>>
  /\ gen = GenIdle
  /\ genResp = NoGenResp
  /\ st = StIdle
  /\ statusResp = NoStatusResp
  /\ ls = LsIdle
  /\ listResp = NoListResp
  /\ promptResp = NoPromptResp
  /\ page = PageIdle

\* ------------------------------------------------------------------------
\* handleGenerate
\* ------------------------------------------------------------------------
\* A faulty variant of the loop below: it returns after its first filename.
FirstMissing_FirstOnly(fns, k) ==
  IF k > Len(fns) THEN ""
  ELSE IF ~StatOK(JoinUploads(fns[k])) THEN "Image not found: " \o fns[k]
  ELSE ""

\* The loop over req.Filenames from index k on: the error of the first
\* filename os.Stat does not find, "" when all are found.
RECURSIVE FirstMissing(_, _)
FirstMissing(fns, k) ==
  IF k > Len(fns) THEN ""
  ELSE IF ~StatOK(JoinUploads(fns[k])) THEN "Image not found: " \o fns[k]
  ELSE FirstMissing(fns, k + 1)

\* A faulty variant of the condition below: the duration is not looked at.
UsesAnchor_NoThreshold(req) == Len(req.OriginalFilenames) > 0

\* The anchor of a continuation is looked at only from 6 seconds on and
\* only when original_filenames is not empty.
UsesAnchor(req) == req.Duration >= AnchorMinDuration /\ Len(req.OriginalFilenames) > 0

\* A faulty variant of the validation below: the empty last_frame_filename
\* is not looked for.
ValidationError_NoFrameCheck(req) ==
  IF ~req.IsContinuation /\ Len(req.Filenames) = 0 THEN "filenames is required"
  ELSE IF req.IsContinuation
    THEN IF ~StatOK(JoinUploads(req.LastFrameFilename)) THEN "Last frame image not found"
         ELSE IF UsesAnchor(req) /\ ~StatOK(JoinUploads(req.OriginalFilenames[1]))
           THEN "Original product image not found"
         ELSE ""
  ELSE FirstMissing(req.Filenames, 1)

\* The validation of handleGenerate: the error message of the branch that
\* rejects the request, "" when none does.
ValidationError(req) ==
  IF ~req.IsContinuation /\ Len(req.Filenames) = 0 THEN "filenames is required"
  ELSE IF req.IsContinuation /\ req.LastFrameFilename = ""
    THEN "last_frame_filename is required for continuation"
  ELSE IF req.IsContinuation
    THEN IF ~StatOK(JoinUploads(req.LastFrameFilename)) THEN "Last frame image not found"
         ELSE IF UsesAnchor(req) /\ ~StatOK(JoinUploads(req.OriginalFilenames[1]))
           THEN "Original product image not found"
         ELSE ""
  ELSE FirstMissing(req.Filenames, 1)

\* A faulty variant of imagePaths below: the anchor is the last original.
ImagePathsOf_LastOriginal(req) ==
  IF req.IsContinuation
    THEN <<JoinUploads(req.LastFrameFilename)>>
         \o (IF UsesAnchor(req)
              THEN <<JoinUploads(req.OriginalFilenames[Len(req.OriginalFilenames)])>>
              ELSE <<>>)
  ELSE [k \in 1..Len(req.Filenames) |-> JoinUploads(req.Filenames[k])]

\* imagePaths of an accepted request.
ImagePathsOf(req) ==
  IF req.IsContinuation
    THEN <<JoinUploads(req.LastFrameFilename)>>
         \o (IF UsesAnchor(req) THEN <<JoinUploads(req.OriginalFilenames[1])>> ELSE <<>>)
  ELSE [k \in 1..Len(req.Filenames) |-> JoinUploads(req.Filenames[k])]

\* finalPrompt
FinalPrompt(req) ==
  IF req.CustomPrompt # "" THEN StyleConfigOf(req.Style).Prompt \o " " \o req.CustomPrompt
  ELSE StyleConfigOf(req.Style).Prompt

\* ratio
RatioOf(r) == IF r \in ratioSizes THEN r ELSE "9:16"

\* A faulty variant of count: a count below 1 becomes 1 instead of 4.
CountOf_Clamp(c) == IF c < MinCount THEN MinCount ELSE IF c > MaxCount THEN MaxCount ELSE c

\* count
CountOf(c) == IF c < MinCount \/ c > MaxCount THEN DefaultCount ELSE c

\* A faulty variant of dur: the duration of the request is used as sent.
DurationOf_AsSent(d) == d

\* dur
DurationOf(d) == IF d < MinDuration \/ d > MaxDuration THEN DefaultDuration ELSE d

\* A faulty variant of the insert: the job is not put in the map.
InsertJob_Lost(js, id, p) == js

\* jobs[id] = p
InsertJob(js, id, p) == [k \in DOMAIN js \cup {id} |-> IF k = id THEN p ELSE js[k]]

\* A request one of the validation branches rejects: jsonError and return.
GenerateReject(reqs) ==
  /\ gen.pc = "idle"
  /\ \E req \in reqs :
       /\ ValidationError(req) # ""
       /\ gen' = [GenIdle EXCEPT !.req = req, !.first = Len(heap)]
       /\ genResp' = [NoGenResp EXCEPT !.code = 400, !.error = ValidationError(req)]
  /\ UNCHANGED <<useMock, heap, jobs, jobsMu, task, st, statusResp, ls, listResp, promptResp,
                 page>>

\* A request that passes validation: the locals up to the job loop. The
\* model takes the request only while the jobs it creates fit under cap.
GenerateAccept(reqs, cap) ==
  /\ gen.pc = "idle"
  /\ \E req \in reqs :
       /\ ValidationError(req) = ""
       /\ Len(heap) + CountOf(req.Count) <= cap
       /\ gen' = [pc |-> "loop", req |-> req, imagePaths |-> ImagePathsOf(req),
                  finalPrompt |-> FinalPrompt(req), ratio |-> RatioOf(req.Ratio),
                  count |-> CountOf(req.Count), dur |-> DurationOf(req.Duration),
                  i |-> 0, jobIDs |-> <<>>, job |-> 0, first |-> Len(heap)]
  /\ genResp' = NoGenResp
  /\ UNCHANGED <<useMock, heap, jobs, jobsMu, task, st, statusResp, ls, listResp, promptResp,
                 page>>

\* One iteration, first half: job := &Job{...}; jobsMu.Lock(); jobs[job.ID] = job
GenerateInsert ==
  /\ gen.pc = "loop"
  /\ gen.i < gen.count
  /\ CanLock
  /\ \E u \in NewUUIDs(Len(heap) + 1) :
       LET p == Len(heap) + 1
           job == NewJob(Truncate(u), gen.imagePaths, gen.finalPrompt, gen.req.Style,
                         gen.ratio, gen.dur, StyleConfigOf(gen.req.Style).ModelName)
       IN /\ heap' = Append(heap, job)
          /\ task' = Append(task, [NewTask EXCEPT !.req = gen.req])
          /\ jobs' = InsertJob(jobs, job.ID, p)
          /\ gen' = [gen EXCEPT !.pc = "locked", !.job = p]
  /\ jobsMu' = [jobsMu EXCEPT !.writer = GenHolder]
  /\ UNCHANGED <<useMock, genResp, st, statusResp, ls, listResp, promptResp,
                 page>>

\* A faulty variant of the step below: the handler marks the job it
\* inserted before it unlocks.
GenerateUnlock_MarksJob ==
  /\ gen.pc = "locked"
  /\ jobsMu' = [jobsMu EXCEPT !.writer = NoHolder]
  /\ heap' = [heap EXCEPT ![gen.job].Prompt = ""]
  /\ gen' = [gen EXCEPT !.pc = "go", !.jobIDs = Append(@, heap[gen.job].ID)]
  /\ UNCHANGED <<useMock, jobs, task, genResp, st, statusResp, ls, listResp, promptResp,
                 page>>

\* jobsMu.Unlock(); jobIDs[i] = job.ID
GenerateUnlock ==
  /\ gen.pc = "locked"
  /\ jobsMu' = [jobsMu EXCEPT !.writer = NoHolder]
  /\ gen' = [gen EXCEPT !.pc = "go", !.jobIDs = Append(@, heap[gen.job].ID)]
  /\ UNCHANGED <<useMock, heap, jobs, task, genResp, st, statusResp, ls, listResp, promptResp,
                 page>>

\* go mockGenerate(job) / go runwareGenerate(job); i++
GenerateGo ==
  /\ gen.pc = "go"
  /\ task' = [task EXCEPT ![gen.job].pc = IF useMock THEN "mock" ELSE "start"]
  /\ gen' = [gen EXCEPT !.pc = IF gen.i + 1 < gen.count THEN "loop" ELSE "respond",
                        !.i = @ + 1]
  /\ UNCHANGED <<useMock, heap, jobs, jobsMu, genResp, st, statusResp, ls, listResp, promptResp,
                 page>>

\* The response: job_ids and count.
GenerateRespond ==
  /\ gen.pc = "respond"
  /\ genResp' = [NoGenResp EXCEPT !.code = 200, !.job_ids = gen.jobIDs, !.count = gen.count]
  /\ gen' = [gen EXCEPT !.pc = "idle"]
  /\ UNCHANGED <<useMock, heap, jobs, jobsMu, task, st, statusResp, ls, listResp, promptResp,
                 page>>

\* ------------------------------------------------------------------------
\* handleGenerate of the model-based variant (part_002)
\* ------------------------------------------------------------------------
\* availableModels: model identifier -> Name
availableModels ==
  [m \in {"google:3@3", "pixverse:1@7", "vidu:4@2", "vidu:4@1"} |->
     CASE m = "google:3@3"   -> "Veo 3.1 Fast"
       [] m = "pixverse:1@7" -> "PixVerse v5.6"
       [] m = "vidu:4@2"     -> "Vidu Q3 Turbo"
       [] m = "vidu:4@1"     -> "Vidu Q3"]

\* modelInfo.Name of modelInfo, ok := availableModels[m]: the zero value
\* when m is no key.
ModelNameOf(m) == IF m \in DOMAIN availableModels THEN availableModels[m] ELSE ""

ModelReq(fns, prompt, model, ratio, product) ==
  [Filenames |-> fns, Prompt |-> prompt, Model |-> model, Ratio |-> ratio,
   ProductName |-> product]

\* Requests to the model-based handleGenerate: known and unknown models,
\* with and without filenames, with existing and missing files.
ModelRequests ==
  { ModelReq(<<"a.jpg">>, "", "vidu:4@2", "9:16", ""),
    ModelReq(<<"a.jpg", "b.jpg">>, "Slow orbit.", "google:3@3", "16:9", "Lamp"),
    ModelReq(<<"a.jpg">>, "", "pixverse:1@7", "4:3", "Lamp"),
    ModelReq(<<"a.jpg">>, "", "sora:1@1", "9:16", ""),
    ModelReq(<<"a.jpg", "b.jpg">>, "Slow orbit.", "", "9:16", "Lamp"),
    ModelReq(<<"missing.jpg">>, "", "sora:1@1", "9:16", ""),
    ModelReq(<<>>, "", "sora:1@1", "9:16", ""),
    ModelReq(<<>>, "", "vidu:4@1", "9:16", ""),
    ModelReq(<<"a.jpg", "missing.jpg">>, "", "vidu:4@1", "9:16", "") }

\* A faulty variant of the validation below: the model is not validated.
ModelValidationError_AnyModel(req) ==
  IF Len(req.Filenames) = 0 THEN "filenames is required"
  ELSE FirstMissing(req.Filenames, 1)

\* The validation of the model-based handleGenerate: the error message of
\* the branch that rejects the request, "" when none does.
ModelValidationError(req) ==
  IF Len(req.Filenames) = 0 THEN "filenames is required"
  ELSE IF req.Model \notin DOMAIN availableModels THEN "Unknown model: " \o req.Model
  ELSE FirstMissing(req.Filenames, 1)

\* finalPrompt of the model-based handleGenerate.
ModelPrompt(req) ==
  IF req.Prompt # "" THEN req.Prompt
  ELSE IF req.ProductName # ""
    THEN "Commercial advertisement for " \o req.ProductName \o "."
  ELSE "Commercial advertisement for a product."

\* A request one of the validation branches rejects: jsonError and return.
ModelGenerateReject ==
  /\ gen.pc = "idle"
  /\ \E req \in ModelRequests :
       /\ ModelValidationError(req) # ""
       /\ gen' = [GenIdle EXCEPT !.req = req, !.first = Len(heap)]
       /\ genResp' = [NoGenResp EXCEPT !.code = 400, !.error = ModelValidationError(req)]
  /\ UNCHANGED <<useMock, heap, jobs, jobsMu, task, st, statusResp, ls, listResp, promptResp,
                 page>>

\* A request that passes validation, up to the insert: the locals,
\* job := &Job{...}; jobsMu.Lock(); jobs[job.ID] = job. The job of this
\* variant has no Style, and its modelID is what its goroutine submits.
\* From here on the handler runs as one iteration of the loop of part_001.
ModelGenerateInsert ==
  /\ gen.pc = "idle"
  /\ CanLock
  /\ Len(heap) < MaxModelJobs
  /\ \E req \in ModelRequests, u \in NewUUIDs(Len(heap) + 1) :
       LET p == Len(heap) + 1
           imagePaths == [k \in 1..Len(req.Filenames) |-> JoinUploads(req.Filenames[k])]
           job == NewJob(Truncate(u), imagePaths, ModelPrompt(req), "", RatioOf(req.Ratio),
                         ModelDuration, ModelNameOf(req.Model))
       IN /\ ModelValidationError(req) = ""
          /\ heap' = Append(heap, job)
          /\ task' = Append(task, [NewTask EXCEPT !.req = req, !.runwareModel = req.Model])
          /\ jobs' = InsertJob(jobs, job.ID, p)
          /\ gen' = [GenIdle EXCEPT !.pc = "locked", !.req = req, !.imagePaths = imagePaths,
                                    !.finalPrompt = ModelPrompt(req),
                                    !.ratio = RatioOf(req.Ratio), !.count = 1,
                                    !.dur = ModelDuration, !.job = p, !.first = Len(heap)]
  /\ jobsMu' = [jobsMu EXCEPT !.writer = GenHolder]
  /\ genResp' = NoGenResp
  /\ UNCHANGED <<useMock, st, statusResp, ls, listResp, promptResp,
                 page>>

\* ------------------------------------------------------------------------
\* handleStatus
\* ------------------------------------------------------------------------
\* RLock; job, exists := jobs[id]; RUnlock; !exists: 404
StatusNotFound ==
  /\ st.pc = "idle"
  /\ CanRLock
  /\ \E id \in IDPrefixes :
       /\ id \notin DOMAIN jobs
       /\ statusResp' = [NoStatusResp EXCEPT !.code = 404, !.id = id, !.error = "Job not found"]
  /\ UNCHANGED <<useMock, heap, jobs, jobsMu, task, gen, genResp, st, ls, listResp, promptResp,
                 page>>

\* RLock; job, exists := jobs[id]; RUnlock; exists
StatusLookup ==
  /\ st.pc = "idle"
  /\ CanRLock
  /\ \E id \in DOMAIN jobs :
       st' = [StIdle EXCEPT !.pc = "Status", !.id = id, !.job = jobs[id]]
  /\ statusResp' = NoStatusResp
  /\ UNCHANGED <<useMock, heap, jobs, jobsMu, task, gen, genResp, ls, listResp, promptResp,
                 page>>

\* json.NewEncoder(w).Encode(job) reads the fields of *job in the order of
\* the struct, outside the lock: ID and Status first,
StatusEncodeStatus ==
  /\ st.pc = "Status"
  /\ st' = [st EXCEPT !.pc = "VideoURL", !.status = heap[st.job].Status]
  /\ UNCHANGED <<useMock, heap, jobs, jobsMu, task, gen, genResp, statusResp, ls, listResp, promptResp,
                 page>>

\* then VideoURL,
StatusEncodeVideoURL ==
  /\ st.pc = "VideoURL"
  /\ st' = [st EXCEPT !.pc = "Error", !.video_url = heap[st.job].VideoURL]
  /\ UNCHANGED <<useMock, heap, jobs, jobsMu, task, gen, genResp, statusResp, ls, listResp, promptResp,
                 page>>

\* and Error last; the encoded job is the response.
StatusEncodeError ==
  /\ st.pc = "Error"
  /\ statusResp' = [code |-> 200, id |-> heap[st.job].ID, status |-> st.status,
                    video_url |-> st.video_url, error |-> heap[st.job].Error]
  /\ st' = [st EXCEPT !.pc = "idle"]
  /\ UNCHANGED <<useMock, heap, jobs, jobsMu, task, gen, genResp, ls, listResp, promptResp,
                 page>>

\* ------------------------------------------------------------------------
\* handleListJobs
\* ------------------------------------------------------------------------
\* A faulty variant of the step below: the read lock is not taken.
ListRLock_NoLock ==
  /\ ls.pc = "idle"
  /\ ls' = [LsIdle EXCEPT !.pc = "range"]
  /\ listResp' = NoListResp
  /\ UNCHANGED <<useMock, heap, jobs, jobsMu, task, gen, genResp, st, statusResp, promptResp,
                 page>>

\* jobsMu.RLock(); list := make([]*Job, 0, len(jobs))
ListRLock ==
  /\ ls.pc = "idle"
  /\ CanRLock
  /\ jobsMu' = [jobsMu EXCEPT !.readers = @ + 1]
  /\ ls' = [LsIdle EXCEPT !.pc = "range"]
  /\ listResp' = NoListResp
  /\ UNCHANGED <<useMock, heap, jobs, task, gen, genResp, st, statusResp, promptResp,
                 page>>

\* for _, job := range jobs { list = append(list, job) }: one entry of the
\* map that the loop has not visited, in the order the map gives.
ListAppend ==
  /\ ls.pc = "range"
  /\ \E id \in DOMAIN jobs \ ls.keys :
       ls' = [ls EXCEPT !.keys = @ \cup {id}, !.list = Append(@, jobs[id])]
  /\ UNCHANGED <<useMock, heap, jobs, jobsMu, task, gen, genResp, st, statusResp, listResp,
                 promptResp, page>>

\* The loop has visited every entry of the map.
ListRangeDone ==
  /\ ls.pc = "range"
  /\ DOMAIN jobs \subseteq ls.keys
  /\ ls' = [ls EXCEPT !.pc = "Status", !.k = 1]
  /\ UNCHANGED <<useMock, heap, jobs, jobsMu, task, gen, genResp, st, statusResp, listResp,
                 promptResp, page>>

\* json.NewEncoder(w).Encode(list) reads the fields of each *job of the
\* list in the order of the struct: ID and Status first,
ListEncodeStatus ==
  /\ ls.pc = "Status"
  /\ ls.k <= Len(ls.list)
  /\ ls' = [ls EXCEPT !.pc = "Error", !.status = heap[ls.list[ls.k]].Status]
  /\ UNCHANGED <<useMock, heap, jobs, jobsMu, task, gen, genResp, st, statusResp, listResp,
                 promptResp, page>>

\* then VideoURL and Error; the next job of the list follows.
ListEncodeError ==
  /\ ls.pc = "Error"
  /\ LET job == heap[ls.list[ls.k]]
     IN ls' = [ls EXCEPT !.pc = "Status", !.k = @ + 1,
                         !.out = Append(@, [id |-> job.ID, status |-> ls.status,
                                            video_url |-> job.VideoURL,
                                            error |-> job.Error])]
  /\ UNCHANGED <<useMock, heap, jobs, jobsMu, task, gen, genResp, st, statusResp, listResp,
                 promptResp, page>>

\* The encoded list is the response; the deferred jobsMu.RUnlock()
ListRUnlock ==
  /\ ls.pc = "Status"
  /\ ls.k > Len(ls.list)
  /\ listResp' = [code |-> 200, jobs |-> ls.out]
  /\ jobsMu' = [jobsMu EXCEPT !.readers = @ - 1]
  /\ ls' = [ls EXCEPT !.pc = "idle"]
  /\ UNCHANGED <<useMock, heap, jobs, task, gen, genResp, st, statusResp, promptResp,
                 page>>

ListStep ==
  \/ ListRLock
  \/ ListAppend
  \/ ListRangeDone
  \/ ListEncodeStatus
  \/ ListEncodeError
  \/ ListRUnlock

\* ------------------------------------------------------------------------
\* The provider
\* ------------------------------------------------------------------------
RemoteURL == "https://vm.runware.ai/video/ws/5/vi/result.mp4"

\* A JSON value read with v, ok := m[key].(string): <<>> when the key is
\* absent or no string, <<s>> when it is the string s.
ProviderMessages == {<<>>, <<"">>, <<"quota exceeded">>}

\* The same for the message of an entry of the "errors" array.
ErrorMessages == {<<>>, <<"">>, <<"invalid api key">>}

\* An entry of the "errors" array.
ErrEntries == [message : ErrorMessages]

\* An entry of the "data" array; a status other than success and error
\* (processing, or none) is "processing". The code reads videoURL of a
\* result with status success only, and message of one with status error
\* only: the results differ in the fields that are read.
Results ==
  [status : {"processing"}, videoURL : {<<>>}, message : {<<>>}]
  \cup [status : {"success"}, videoURL : {<<>>, <<"">>, <<RemoteURL>>}, message : {<<>>}]
  \cup [status : {"error"}, videoURL : {<<>>}, message : ProviderMessages]

SeqsUpTo(S, n) == UNION {[1..k -> S] : k \in 0..n}

\* What client.Do and json.Unmarshal can give for a request to the
\* provider: no response (transport error or timeout), a response with a
\* status other than 200, a body that is no JSON of the expected shape, or
\* a parsed body.
Responses ==
  {[kind |-> k, errors |-> <<>>, data |-> <<>>] : k \in {"transport", "status", "garbage"}}
  \cup [kind : {"json"}, errors : SeqsUpTo(ErrEntries, MaxErrors),
        data : SeqsUpTo(Results, NumberResults)]

\* What the goroutine does after a response.
Continue == [do |-> "continue", arg |-> ""]
Complete(url) == [do |-> "complete", arg |-> url]
Fail(msg) == [do |-> "fail", arg |-> msg]

\* videoURL, ok := result["videoURL"].(string); ok && videoURL != ""
HasVideo(result) == result.videoURL # <<>> /\ result.videoURL[1] # ""

\* ------------------------------------------------------------------------
\* runwareGenerate
\* ------------------------------------------------------------------------
\* usePaths: more than 2 images are cut to the first and the last.
UsePaths(job) ==
  IF Len(job.ImagePaths) > 2
    THEN <<job.ImagePaths[1], job.ImagePaths[Len(job.ImagePaths)]>>
  ELSE job.ImagePaths

\* The loop over usePaths from index k on: the error of the first image
\* os.ReadFile fails on, "" when all are read.
RECURSIVE FirstUnreadable(_, _)
FirstUnreadable(paths, k) ==
  IF k > Len(paths) THEN ""
  ELSE IF ~ReadOK(paths[k]) THEN "Failed to read image " \o ToString(k)
  ELSE FirstUnreadable(paths, k + 1)

\* A faulty variant of the role below: the style is not looked at.
FrameRole_AnyStyle(style, n, k) ==
  IF n = 1 THEN <<"first">>
  ELSE IF k = 1 THEN <<"first">>
  ELSE IF k = n THEN <<"last">>
  ELSE <<>>

\* frame["frame"] of the k-th of n images (k counts from 1): <<>> when the
\* key is not set.
FrameRole(style, n, k) ==
  IF style = "unboxing"
    THEN IF n = 1 THEN <<"last">>
         ELSE IF k = 1 THEN <<"first">>
         ELSE IF k = n THEN <<"last">>
         ELSE <<>>
  ELSE IF n = 1 THEN <<"first">>
       ELSE IF k = 1 THEN <<"first">>
       ELSE IF k = n THEN <<"last">>
       ELSE <<>>

\* frameImages: one frame per image of usePaths; inputImage stands for the
\* encoded content of the file at that path.
FrameImages(job) ==
  LET paths == UsePaths(job)
  IN [k \in 1..Len(paths) |->
        [inputImage |-> paths[k], frame |-> FrameRole(job.Style, Len(paths), k)]]

\* A faulty variant of the loop below: a direct result is not looked for.
SubmitResultsLoop_NoDirect(data, k) == Continue

\* The loop over response.Data after the submit, from index k on: a result
\* with status success and a video URL completes the job at once.
RECURSIVE SubmitResultsLoop(_, _)
SubmitResultsLoop(data, k) ==
  IF k > Len(data) THEN Continue
  ELSE IF data[k].status = "success" /\ HasVideo(data[k]) THEN Complete(data[k].videoURL[1])
  ELSE SubmitResultsLoop(data, k + 1)

\* A faulty variant of the outcome below: after a transport error of the
\* submit call the goroutine goes on to poll.
SubmitOutcome_PollsOn(resp) ==
  CASE resp.kind = "transport" -> Continue
    [] resp.kind = "status"    -> Fail("Runware API 500: internal error")
    [] resp.kind = "garbage"   -> Fail("Failed to parse response: invalid character")
    [] OTHER                   -> SubmitResultsLoop(resp.data, 1)

\* What runwareGenerate does with the response to its submit request.
SubmitOutcome(resp) ==
  CASE resp.kind = "transport" -> Fail("Runware API error: timeout")
    [] resp.kind = "status"    -> Fail("Runware API 500: internal error")
    [] resp.kind = "garbage"   -> Fail("Failed to parse response: invalid character")
    [] OTHER                   -> SubmitResultsLoop(resp.data, 1)

\* The loop over pollResp.Errors from index k on: the first message that is
\* a non-empty string, <<>> when there is none.
RECURSIVE ErrorsLoop(_, _)
ErrorsLoop(errors, k) ==
  IF k > Len(errors) THEN <<>>
  ELSE IF errors[k].message # <<>> /\ errors[k].message[1] # "" THEN errors[k].message
  ELSE ErrorsLoop(errors, k + 1)

\* A faulty variant of errMsg below: the message of the result is not used.
ResultErrMsg_Unknown(result) == "Unknown error"

\* errMsg of a result with status error.
ResultErrMsg(result) ==
  IF result.message # <<>> THEN result.message[1] ELSE "Unknown error"

\* A faulty variant of the loop below: a result with status error is
\* skipped like one that is still processing.
RECURSIVE PollResultsLoop_ErrorSkipped(_, _)
PollResultsLoop_ErrorSkipped(data, k) ==
  IF k > Len(data) THEN Continue
  ELSE IF data[k].status = "success" /\ HasVideo(data[k]) THEN Complete(data[k].videoURL[1])
  ELSE PollResultsLoop_ErrorSkipped(data, k + 1)

\* A faulty variant of the loop below: a result with status success is
\* skipped like one that is still processing.
RECURSIVE PollResultsLoop_SuccessSkipped(_, _)
PollResultsLoop_SuccessSkipped(data, k) ==
  IF k > Len(data) THEN Continue
  ELSE IF data[k].status = "error" THEN Fail(ResultErrMsg(data[k]))
  ELSE PollResultsLoop_SuccessSkipped(data, k + 1)

\* A faulty variant of the loop below: a result with status success ends
\* the loop whether it has a video URL or not.
RECURSIVE PollResultsLoop_BareSuccess(_, _)
PollResultsLoop_BareSuccess(data, k) ==
  IF k > Len(data) THEN Continue
  ELSE IF data[k].status = "success"
    THEN Complete(IF HasVideo(data[k]) THEN data[k].videoURL[1] ELSE "")
  ELSE IF data[k].status = "error" THEN Fail(ResultErrMsg(data[k]))
  ELSE PollResultsLoop_BareSuccess(data, k + 1)

\* The loop over pollResp.Data from index k on.
RECURSIVE PollResultsLoop(_, _)
PollResultsLoop(data, k) ==
  IF k > Len(data) THEN Continue
  ELSE IF data[k].status = "success" /\ HasVideo(data[k]) THEN Complete(data[k].videoURL[1])
  ELSE IF data[k].status = "error" THEN Fail(ResultErrMsg(data[k]))
  ELSE PollResultsLoop(data, k + 1)

\* A faulty variant of the iteration below: a transport error fails the job.
PollOutcome_TransportFails(resp) ==
  IF resp.kind = "transport" THEN Fail("Poll error: timeout")
  ELSE IF resp.kind = "garbage" THEN Continue
  ELSE IF ErrorsLoop(resp.errors, 1) # <<>> THEN Fail(ErrorsLoop(resp.errors, 1)[1])
  ELSE PollResultsLoop(resp.data, 1)

\* What one iteration of pollResult does with the response to its poll
\* request: a transport error or an unparseable body is skipped (the HTTP
\* status is not looked at).
PollOutcome(resp) ==
  IF resp.kind \in {"transport", "garbage"} THEN Continue
  ELSE IF ErrorsLoop(resp.errors, 1) # <<>> THEN Fail(ErrorsLoop(resp.errors, 1)[1])
  ELSE PollResultsLoop(resp.data, 1)

\* The provider reports an explicit error for the task: a result with
\* status error, or an entry of "errors" with a message.
ReportsError(resp) ==
  /\ resp.kind = "json"
  /\ \/ \E k \in 1..Len(resp.data) : resp.data[k].status = "error"
     \/ \E k \in 1..Len(resp.errors) :
          resp.errors[k].message # <<>> /\ resp.errors[k].message[1] # ""

\* localURL
LocalURL(id) == "http://localhost:8080/videos/" \o id \o ".mp4"

\* The frame images are built: every image of usePaths is read.
ReadImages(p) ==
  /\ p \in DOMAIN task
  /\ task[p].pc = "start"
  /\ LET err == FirstUnreadable(UsePaths(heap[p]), 1)
     IN task' = [task EXCEPT ![p].pc = IF err # "" THEN "fail" ELSE "submit",
                             ![p].errMsg = err,
                             ![p].frameImages = IF err # "" THEN <<>>
                                                ELSE FrameImages(heap[p]),
                             ![p].runwareModel = IF err # "" THEN ""
                                                 ELSE StyleConfigOf(heap[p].Style).Model]
  /\ UNCHANGED <<useMock, heap, jobs, jobsMu, gen, genResp, st, statusResp, ls, listResp, promptResp,
                 page>>

\* The response carries a result with status success and a video URL.
CarriesVideo(resp) ==
  /\ resp.kind = "json"
  /\ \E k \in 1..Len(resp.data) :
       /\ resp.data[k].status = "success"
       /\ resp.data[k].videoURL \notin {<<>>, <<"">>}

\* The payload is sent and the response looked at.
Submit(p) ==
  /\ p \in DOMAIN task
  /\ task[p].pc = "submit"
  /\ \E resp \in Responses :
       LET out == SubmitOutcome(resp)
       IN task' = [task EXCEPT
                     ![p].pc = CASE out.do = "fail" -> "fail"
                                 [] out.do = "complete" -> "download"
                                 [] OTHER -> "poll",
                     ![p].errMsg = IF out.do = "fail" THEN out.arg ELSE "",
                     ![p].remoteURL = IF out.do = "complete" THEN out.arg ELSE "",
                     ![p].submitVideo = CarriesVideo(resp),
                     ![p].submit = resp.kind,
                     ![p].submitError = ReportsError(resp)]
  /\ UNCHANGED <<useMock, heap, jobs, jobsMu, gen, genResp, st, statusResp, ls, listResp, promptResp,
                 page>>

\* ------------------------------------------------------------------------
\* pollResult
\* ------------------------------------------------------------------------
\* What a response to a poll request says: whether there was a body that
\* could be parsed, the non-empty messages of its "errors" array, the
\* message fields of its results with status error, and the non-empty video
\* URLs of its results with status success.
PollDigest(resp) ==
  [kind     |-> IF resp.kind \in {"transport", "garbage"} THEN "unusable" ELSE "parsed",
   messages |-> {resp.errors[k].message[1] :
                   k \in {j \in 1..Len(resp.errors) : resp.errors[j].message # <<>>}}
                \ {""},
   errors   |-> {resp.data[k].message :
                   k \in {j \in 1..Len(resp.data) : resp.data[j].status = "error"}},
   videos   |-> {resp.data[k].videoURL[1] :
                   k \in {j \in 1..Len(resp.data) :
                            resp.data[j].status = "success" /\ resp.data[j].videoURL # <<>>}}
                \ {""}]

\* The poll requests sent so far, after one more.
CountPoll(n) == IF n < MaxPollsCounted THEN n + 1 ELSE n
\* One iteration of the loop: sleep, poll request, response. The loop
\* variable i ends with pollResult.
Poll(p) ==
  /\ p \in DOMAIN task
  /\ task[p].pc = "poll"
  /\ task[p].i < MaxPollAttempts
  /\ \E resp \in Responses :
       LET out == PollOutcome(resp)
       IN task' = [task EXCEPT
                     ![p].pc = CASE out.do = "fail" -> "fail"
                                 [] out.do = "complete" -> "download"
                                 [] OTHER -> "poll",
                     ![p].i = IF out.do = "continue" THEN @ + 1 ELSE 0,
                     ![p].errMsg = IF out.do = "fail" THEN out.arg ELSE "",
                     ![p].remoteURL = IF out.do = "complete" THEN out.arg ELSE "",
                     ![p].provErr = ReportsError(resp),
                     ![p].lastPoll = PollDigest(resp),
                     ![p].polls = CountPoll(@),
                     ![p].submitError = FALSE]
  /\ UNCHANGED <<useMock, heap, jobs, jobsMu, gen, genResp, st, statusResp, ls, listResp, promptResp,
                 page>>

\* A faulty variant of the step below: when the attempts are used up the
\* loop starts over instead of failing the job.
PollTimeout_Restart(p) ==
  /\ p \in DOMAIN task
  /\ task[p].pc = "poll"
  /\ task[p].i >= MaxPollAttempts
  /\ task' = [task EXCEPT ![p].i = 0]
  /\ UNCHANGED <<useMock, heap, jobs, jobsMu, gen, genResp, st, statusResp, ls, listResp, promptResp,
                 page>>

\* A faulty variant of the step below: the loop gives up one attempt early.
PollTimeout_Early(p) ==
  /\ p \in DOMAIN task
  /\ task[p].pc = "poll"
  /\ task[p].i >= MaxPollAttempts - 1
  /\ task' = [task EXCEPT ![p].pc = "fail", ![p].i = 0,
                          ![p].errMsg = "Timed out waiting for video"]
  /\ UNCHANGED <<useMock, heap, jobs, jobsMu, gen, genResp, st, statusResp, ls, listResp, promptResp,
                 page>>

\* The loop ends without a result: setJobError(job, "Timed out waiting for video")
PollTimeout(p) ==
  /\ p \in DOMAIN task
  /\ task[p].pc = "poll"
  /\ task[p].i >= MaxPollAttempts
  /\ task' = [task EXCEPT ![p].pc = "fail", ![p].i = 0,
                          ![p].errMsg = "Timed out waiting for video"]
  /\ UNCHANGED <<useMock, heap, jobs, jobsMu, gen, genResp, st, statusResp, ls, listResp, promptResp,
                 page>>

\* ------------------------------------------------------------------------
\* runwareGenerate of backend/main.go
\* ------------------------------------------------------------------------
\* frame["frame"] of the k-th of n images (k counts from 1) in
\* backend/main.go: a middle image gets no role.
FrameRoleMain(n, k) ==
  IF n = 1 THEN <<"first">>
  ELSE IF k = 1 THEN <<"first">>
  ELSE IF k = n THEN <<"last">>
  ELSE <<>>

\* frameImages of backend/main.go: one frame per image of job.ImagePaths.
FrameImagesMain(job) ==
  [k \in 1..Len(job.ImagePaths) |->
     [inputImage |-> job.ImagePaths[k], frame |-> FrameRoleMain(Len(job.ImagePaths), k)]]

\* The frame images are built by backend/main.go: every image is read.
ReadImagesMain(p) ==
  /\ p \in DOMAIN task
  /\ task[p].pc = "start"
  /\ LET err == FirstUnreadable(heap[p].ImagePaths, 1)
     IN task' = [task EXCEPT ![p].pc = IF err # "" THEN "fail" ELSE "submit",
                             ![p].errMsg = err,
                             ![p].frameImages = IF err # "" THEN <<>>
                                                ELSE FrameImagesMain(heap[p])]
  /\ UNCHANGED <<useMock, heap, jobs, jobsMu, gen, genResp, st, statusResp, ls, listResp, promptResp,
                 page>>

\* ------------------------------------------------------------------------
\* completeJobWithVideo, setJobError, mockGenerate
\* ------------------------------------------------------------------------
\* What the download can do: client.Get fails, os.Create fails, the body
\* is copied to the local file (whatever the response status is), or
\* io.Copy fails on the way (its error is dropped).
DownloadOutcomes ==
  {"get failed", "create failed", "saved", "saved error response", "copy failed"}

\* localURL after the download
DownloadedURL(outcome, id, remoteURL) ==
  IF outcome \in {"get failed", "create failed"} THEN remoteURL ELSE LocalURL(id)

\* A faulty variant of the step below: the job is marked completed before
\* the video is fetched.
Download_MarksCompleted(p) ==
  /\ p \in DOMAIN task
  /\ task[p].pc = "download"
  /\ heap[p].Status = "processing"
  /\ heap' = [heap EXCEPT ![p].Status = "completed",
                          ![p].VideoURL = LocalURL(heap[p].ID)]
  /\ UNCHANGED <<useMock, jobs, jobsMu, task, gen, genResp, st, statusResp, ls, listResp,
                 promptResp, page>>

\* A faulty variant of the step below: completeJobWithVideo takes the
\* write lock first and downloads with it.
Download_HoldsLock(p) ==
  /\ p \in DOMAIN task
  /\ task[p].pc = "download"
  /\ CanLock
  /\ jobsMu' = [jobsMu EXCEPT !.writer = TaskHolder(p)]
  /\ \E outcome \in DownloadOutcomes :
       task' = [task EXCEPT ![p].pc = "complete",
                            ![p].localURL = DownloadedURL(outcome, heap[p].ID, task[p].remoteURL),
                            ![p].download = outcome]
  /\ UNCHANGED <<useMock, heap, jobs, gen, genResp, st, statusResp, ls, listResp, promptResp,
                 page>>

\* A faulty variant of the step below: after a GET that failed the video
\* is asked for again.
Download_Retries(p) ==
  /\ p \in DOMAIN task
  /\ task[p].pc = "download"
  /\ \E outcome \in DownloadOutcomes :
       task' = [task EXCEPT ![p].pc = IF outcome = "get failed" THEN "download" ELSE "complete",
                            ![p].localURL = DownloadedURL(outcome, heap[p].ID, task[p].remoteURL),
                            ![p].download = outcome]
  /\ UNCHANGED <<useMock, heap, jobs, jobsMu, gen, genResp, st, statusResp, ls, listResp, promptResp,
                 page>>

\* completeJobWithVideo up to its critical section.
Download(p) ==
  /\ p \in DOMAIN task
  /\ task[p].pc = "download"
  /\ \E outcome \in DownloadOutcomes :
       task' = [task EXCEPT ![p].pc = "complete",
                            ![p].localURL = DownloadedURL(outcome, heap[p].ID, task[p].remoteURL),
                            ![p].download = outcome]
  /\ UNCHANGED <<useMock, heap, jobs, jobsMu, gen, genResp, st, statusResp, ls, listResp, promptResp,
                 page>>

\* jobsMu.Lock(); job.Status = "completed"
CompleteLock(p) ==
  /\ p \in DOMAIN task
  /\ task[p].pc = "complete"
  /\ CanLock
  /\ jobsMu' = [jobsMu EXCEPT !.writer = TaskHolder(p)]
  /\ heap' = [heap EXCEPT ![p].Status = "completed"]
  /\ task' = [task EXCEPT ![p].pc = "completing"]
  /\ UNCHANGED <<useMock, jobs, gen, genResp, st, statusResp, ls, listResp, promptResp,
                 page>>

\* job.VideoURL = localURL; jobsMu.Unlock()
CompleteUnlock(p) ==
  /\ p \in DOMAIN task
  /\ task[p].pc = "completing"
  /\ heap' = [heap EXCEPT ![p].VideoURL = task[p].localURL]
  /\ jobsMu' = [jobsMu EXCEPT !.writer = NoHolder]
  /\ task' = [task EXCEPT ![p].pc = "done"]
  /\ UNCHANGED <<useMock, jobs, gen, genResp, st, statusResp, ls, listResp, promptResp,
                 page>>

\* setJobError: jobsMu.Lock(); job.Status = "failed"
SetJobErrorLock(p) ==
  /\ p \in DOMAIN task
  /\ task[p].pc = "fail"
  /\ CanLock
  /\ jobsMu' = [jobsMu EXCEPT !.writer = TaskHolder(p)]
  /\ heap' = [heap EXCEPT ![p].Status = "failed"]
  /\ task' = [task EXCEPT ![p].pc = "failing"]
  /\ UNCHANGED <<useMock, jobs, gen, genResp, st, statusResp, ls, listResp, promptResp,
                 page>>

\* A faulty variant of the step below: the caller in pollResult does not
\* return after setJobError and polls on.
SetJobErrorUnlock_NoReturn(p) ==
  /\ p \in DOMAIN task
  /\ task[p].pc = "failing"
  /\ heap' = [heap EXCEPT ![p].Error = task[p].errMsg]
  /\ jobsMu' = [jobsMu EXCEPT !.writer = NoHolder]
  /\ task' = [task EXCEPT ![p].pc = IF task[p].provErr THEN "poll" ELSE "done"]
  /\ UNCHANGED <<useMock, jobs, gen, genResp, st, statusResp, ls, listResp, promptResp,
                 page>>

\* job.Error = errMsg; the deferred jobsMu.Unlock()
SetJobErrorUnlock(p) ==
  /\ p \in DOMAIN task
  /\ task[p].pc = "failing"
  /\ heap' = [heap EXCEPT ![p].Error = task[p].errMsg]
  /\ jobsMu' = [jobsMu EXCEPT !.writer = NoHolder]
  /\ task' = [task EXCEPT ![p].pc = "done"]
  /\ UNCHANGED <<useMock, jobs, gen, genResp, st, statusResp, ls, listResp, promptResp,
                 page>>

\* mockGenerate: sleep; jobsMu.Lock(); job.Status = "completed"
MockLock(p) ==
  /\ p \in DOMAIN task
  /\ task[p].pc = "mock"
  /\ CanLock
  /\ jobsMu' = [jobsMu EXCEPT !.writer = TaskHolder(p)]
  /\ heap' = [heap EXCEPT ![p].Status = "completed"]
  /\ task' = [task EXCEPT ![p].pc = "mocking"]
  /\ UNCHANGED <<useMock, jobs, gen, genResp, st, statusResp, ls, listResp, promptResp,
                 page>>

\* job.VideoURL = "https://www.w3schools.com/html/mov_bbb.mp4"; the deferred Unlock
MockUnlock(p) ==
  /\ p \in DOMAIN task
  /\ task[p].pc = "mocking"
  /\ heap' = [heap EXCEPT ![p].VideoURL = "https://www.w3schools.com/html/mov_bbb.mp4"]
  /\ jobsMu' = [jobsMu EXCEPT !.writer = NoHolder]
  /\ task' = [task EXCEPT ![p].pc = "done"]
  /\ UNCHANGED <<useMock, jobs, gen, genResp, st, statusResp, ls, listResp, promptResp,
                 page>>

\* ------------------------------------------------------------------------
\* Specifications
\* ------------------------------------------------------------------------
\* A step of the goroutine of heap[p] running runwareGenerate.
RunwareStep(p) ==
  \/ ReadImages(p)
  \/ Submit(p)
  \/ Poll(p)
  \/ PollTimeout(p)
  \/ Download(p)
  \/ CompleteLock(p)
  \/ CompleteUnlock(p)
  \/ SetJobErrorLock(p)
  \/ SetJobErrorUnlock(p)

\* A step of the goroutine of heap[p] running mockGenerate.
MockStep(p) == MockLock(p) \/ MockUnlock(p)

\* A step of the goroutine of heap[p].
TaskStep(p) == RunwareStep(p) \/ MockStep(p)

\* The pointers a model run can hand out.
Pointers == 1..(MaxJobs + 1)

TaskNext == \E p \in Pointers : TaskStep(p)

\* A step of handleGenerate after it has accepted a request.
GenerateStep == GenerateInsert \/ GenerateUnlock \/ GenerateGo \/ GenerateRespond

StatusStep ==
  \/ StatusNotFound
  \/ StatusLookup
  \/ StatusEncodeStatus
  \/ StatusEncodeVideoURL
  \/ StatusEncodeError

\* The lifecycle of a job: the server takes requests that it rejects or
\* that create a single job, and follows that job through every step of
\* its goroutine, with status queries at any moment.
Next ==
  \/ GenerateReject(LifeRequests)
  \/ GenerateAccept(LifeRequests, 1)
  \/ GenerateStep
  \/ StatusStep
  \/ TaskNext

Spec == Init /\ [][Next]_vars

\* The lifecycle of a job without the status queries, which take no lock
\* that outlives a step and write nothing a goroutine reads.
NextLive ==
  \/ GenerateReject(LifeRequests)
  \/ GenerateAccept(LifeRequests, 1)
  \/ GenerateStep
  \/ TaskNext

\* The scheduler runs handleGenerate and every goroutine that can take a
\* step, a blocked Lock() returns once the lock is free often enough, and
\* every provider call returns or times out.
FairSpec == Init /\ [][NextLive]_vars /\ WF_vars(GenerateStep) /\ SF_vars(TaskNext)

\* The lifecycle of a job as the server is shipped, with useMock = false:
\* no goroutine runs mockGenerate.
NextProd ==
  \/ GenerateReject(LifeRequests)
  \/ GenerateAccept(LifeRequests, 1)
  \/ GenerateStep
  \/ StatusStep
  \/ \E p \in Pointers : RunwareStep(p)

InitProd == Init /\ ~useMock

SpecProd == InitProd /\ [][NextProd]_vars

\* The job store: handleGenerate takes every kind of request, for up to
\* MaxJobs jobs; the goroutines it starts have not run yet.
NextStore ==
  \/ GenerateReject(StoreRequests)
  \/ GenerateAccept(StoreRequests, MaxJobs)
  \/ GenerateStep

SpecStore == Init /\ [][NextStore]_vars

\* The scenarios: the lifecycle of a job without the status queries, for
\* the requests of the scenarios.
NextTask ==
  \/ GenerateReject(ScenarioRequests)
  \/ GenerateAccept(ScenarioRequests, 1)
  \/ GenerateStep
  \/ TaskNext

SpecTask == Init /\ [][NextTask]_vars

\* The frames: handleGenerate takes a request of any kind, for one job,
\* and the goroutine of the job builds the frameImages of its payload.
NextFrames ==
  \/ GenerateReject(FrameRequests)
  \/ GenerateAccept(FrameRequests, 1)
  \/ GenerateStep
  \/ \E p \in Pointers : ReadImages(p)

SpecFrames == InitProd /\ [][NextFrames]_vars

\* The frames as backend/main.go builds them.
NextMain ==
  \/ GenerateReject(MainRequests)
  \/ GenerateAccept(MainRequests, 1)
  \/ GenerateStep
  \/ \E p \in Pointers : ReadImagesMain(p)

SpecMain == InitProd /\ [][NextMain]_vars

\* ------------------------------------------------------------------------
\* handleAutoPrompt
\* ------------------------------------------------------------------------
\* The fields of the request that decide which images are sent.
PromptReq(fns, style, cont, frame) ==
  [Filenames |-> fns, Style |-> style, IsContinuation |-> cont, FrameFilename |-> frame]

PromptRequests ==
  { PromptReq(<<"a.jpg">>, "rotating", FALSE, ""),
    PromptReq(<<"a.jpg", "b.jpg">>, "unboxing", FALSE, ""),
    PromptReq(<<"missing.jpg", "a.jpg">>, "neon lights", FALSE, ""),
    PromptReq(<<"a.jpg">>, "cinematic", TRUE, "frame.jpg"),
    PromptReq(<<>>, "cinematic", TRUE, "frame.jpg"),
    PromptReq(<<>>, "cinematic", TRUE, ""),
    PromptReq(<<"missing.jpg", "">>, "minimal", FALSE, "") }

\* What the call of the model runner gives: an error of client.Do, or a
\* response with a status and a body; a body that parses carries the
\* contents of its choices.
LlmResponses ==
  { [kind |-> "transport", status |-> 0, choices |-> <<>>],
    [kind |-> "json", status |-> 503, choices |-> <<>>],
    [kind |-> "garbage", status |-> 200, choices |-> <<>>],
    [kind |-> "json", status |-> 200, choices |-> <<>>],
    [kind |-> "json", status |-> 200, choices |-> <<"">>],
    [kind |-> "json", status |-> 200, choices |-> <<"slow orbit around the bottle">>],
    [kind |-> "json", status |-> 200,
     choices |-> <<"slow orbit around the bottle", "fast zoom on the label">>] }

\* imageFilenames: the captured frame of a continuation, then the uploads.
ImageFilenames(req) ==
  IF req.IsContinuation /\ req.FrameFilename # ""
    THEN <<req.FrameFilename>> \o req.Filenames
    ELSE req.Filenames

\* imageBase64s: the loop skips every file it cannot find, open or decode;
\* the uploads directory opens and does not decode.
ImageBase64s(req) ==
  SelectSeq(ImageFilenames(req), LAMBDA fn : ReadOK(JoinUploads(fn)))

\* How the call of the model runner ended, as the handler tells it apart.
LlmOutcome(resp) ==
  IF resp.kind = "transport" THEN "transport"
  ELSE IF resp.status # 200 THEN "status"
  ELSE IF resp.kind = "garbage" THEN "unparseable"
  ELSE IF Len(resp.choices) = 0 THEN "no choices"
  ELSE "ok"

\* A faulty variant of the answer below: without choices the prompt of the
\* style is answered.
LlmAnswer_StylePrompt(req, resp) ==
  IF LlmOutcome(resp) = "transport"
    THEN [code |-> 500, prompt |-> <<>>, error |-> <<"Model Runner error: connection refused">>,
          llm |-> "transport"]
  ELSE IF LlmOutcome(resp) = "status"
    THEN [code |-> 500, prompt |-> <<>>, error |-> <<"Model Runner 503: ">>, llm |-> "status"]
  ELSE IF LlmOutcome(resp) = "unparseable"
    THEN [code |-> 500, prompt |-> <<>>, error |-> <<"Failed to parse model response">>,
          llm |-> "unparseable"]
  ELSE IF LlmOutcome(resp) = "no choices"
    THEN [code |-> 200, prompt |-> <<StyleConfigOf(req.Style).Prompt>>, error |-> <<>>,
          llm |-> "no choices"]
  ELSE [code |-> 200, prompt |-> <<resp.choices[1]>>, error |-> <<>>, llm |-> "ok"]

\* The answer of the handler once the model runner was called: the content
\* of the first choice, or an error.
LlmAnswer(req, resp) ==
  IF LlmOutcome(resp) = "transport"
    THEN [code |-> 500, prompt |-> <<>>, error |-> <<"Model Runner error: connection refused">>,
          llm |-> "transport"]
  ELSE IF LlmOutcome(resp) = "status"
    THEN [code |-> 500, prompt |-> <<>>, error |-> <<"Model Runner 503: ">>, llm |-> "status"]
  ELSE IF LlmOutcome(resp) \in {"unparseable", "no choices"}
    THEN [code |-> 500, prompt |-> <<>>, error |-> <<"Failed to parse model response">>,
          llm |-> LlmOutcome(resp)]
  ELSE [code |-> 200, prompt |-> <<resp.choices[1]>>, error |-> <<>>, llm |-> "ok"]

\* The answer of handleAutoPrompt; llm records how the call of the model
\* runner ended, "none" when the handler returned before it.
AutoPromptAnswer(req, resp) ==
  IF Len(ImageFilenames(req)) = 0
    THEN [code |-> 400, prompt |-> <<>>, error |-> <<"filenames is required">>, llm |-> "none"]
  ELSE IF Len(ImageBase64s(req)) = 0
    THEN [code |-> 400, prompt |-> <<>>, error |-> <<"No valid images found">>, llm |-> "none"]
  ELSE LlmAnswer(req, resp)

\* handleAutoPrompt, whole: it reads uploads, calls the model runner and
\* answers; it takes no lock and touches no job.
AutoPrompt ==
  \E req \in PromptRequests, resp \in LlmResponses :
    /\ promptResp' = AutoPromptAnswer(req, resp)
    /\ UNCHANGED <<useMock, heap, jobs, jobsMu, task, gen, genResp, st, statusResp, ls, listResp,
                 page>>

\* Prompts are asked for while handleGenerate creates a job.
NextPrompt ==
  \/ GenerateReject(FrameRequests)
  \/ GenerateAccept(FrameRequests, 1)
  \/ GenerateStep
  \/ AutoPrompt

SpecPrompt == Init /\ [][NextPrompt]_vars

\* The list: the jobs are listed at any moment of the lifecycle of a job.
NextList ==
  \/ GenerateReject(LifeRequests)
  \/ GenerateAccept(LifeRequests, 1)
  \/ GenerateStep
  \/ TaskNext
  \/ ListStep

SpecList == Init /\ [][NextList]_vars

\* ------------------------------------------------------------------------
\* The page of the frontend (frontend/src/app/page.tsx)
\* ------------------------------------------------------------------------
\* The body generateVideos posts: the page offers the count 1 only; the
\* uploaded image can have gone from the uploads directory since.
VideosRequests ==
  { Req(<<"a.jpg">>, "tiktok", "9:16", "", 1, 5, FALSE, "", <<>>),
    Req(<<"missing.jpg">>, "tiktok", "9:16", "", 1, 5, FALSE, "", <<>>) }

\* The body generateContinuation posts for the captured frame.
ContinuationRequest(frame) ==
  Req(<<>>, "tiktok", "9:16", "the cap opens", 1, 5, TRUE, frame, <<"a.jpg">>)

\* The first lines of generateVideos and generateContinuation, up to the
\* fetch of /api/generate.
StartGeneration(kind, req) ==
  /\ ~page.isGenerating
  /\ page.loop.pc = "idle"
  /\ Len(heap) < MaxPageJobs
  /\ page' = [page EXCEPT !.isGenerating = TRUE,
                          !.videos = <<>>,
                          !.selectedVideo = IF kind = "generateVideos" THEN "" ELSE @,
                          !.showContinuePanel = FALSE,
                          !.pollingRef = TRUE,
                          !.loop = [NoLoop EXCEPT !.pc = "posted", !.kind = kind, !.req = req]]
  /\ genResp' = NoGenResp
  /\ UNCHANGED <<useMock, heap, jobs, jobsMu, task, gen, st, statusResp, ls, listResp,
                 promptResp>>

\* generateVideos, clicked with every image uploaded
ClickGenerate == \E req \in VideosRequests : StartGeneration("generateVideos", req)

\* generateContinuation, clicked in the continuation panel with a captured
\* frame and a prompt
ClickGenerateContinuation ==
  /\ page.showContinuePanel
  /\ page.continuationFrameFilename # ""
  /\ StartGeneration("generateContinuation",
                     ContinuationRequest(page.continuationFrameFilename))

\* The request of the page reaches handleGenerate.
PageGenerateRequest ==
  /\ page.loop.pc = "posted"
  /\ genResp = NoGenResp
  /\ \/ GenerateReject({page.loop.req})
     \/ GenerateAccept({page.loop.req}, MaxPageJobs)

\* finally { setIsGenerating(false); pollingRef.current = false }
Finally(pg) == [pg EXCEPT !.isGenerating = FALSE, !.pollingRef = FALSE, !.loop = NoLoop]

\* const data = await res.json(): an error is thrown to the catch and the
\* finally; else jobIds.map((id) => ({ id, status: "processing" })) are the
\* videos and the poll loop starts.
PageReceive ==
  /\ page.loop.pc = "posted"
  /\ gen.pc = "idle"
  /\ genResp.code # 0
  /\ page' = IF genResp.error # ""
               THEN Finally(page)
               ELSE [page EXCEPT !.videos =
                                   [n \in 1..Len(genResp.job_ids) |->
                                      [id |-> genResp.job_ids[n], status |-> "processing",
                                       video_url |-> ""]],
                                 !.loop.pc = "while",
                                 !.loop.jobIds = genResp.job_ids]
  /\ UNCHANGED <<useMock, heap, jobs, jobsMu, task, gen, genResp, st, statusResp, ls,
                 listResp, promptResp>>

\* while (completed.size < jobIds.length && pollingRef.current): the loop
\* sleeps and starts a pass over the job IDs, or ends in the finally.
PageWhile ==
  /\ page.loop.pc = "while"
  /\ page' = IF Cardinality(page.loop.completed) < Len(page.loop.jobIds) /\ page.pollingRef
               THEN [page EXCEPT !.loop.pc = "for", !.loop.k = 1]
               ELSE Finally(page)
  /\ UNCHANGED <<useMock, heap, jobs, jobsMu, task, gen, genResp, st, statusResp, ls,
                 listResp, promptResp>>

\* The loop after the job ID at k: the next ID, or the while again.
NextId(loop) ==
  IF loop.k < Len(loop.jobIds) THEN [loop EXCEPT !.pc = "for", !.k = @ + 1]
  ELSE [loop EXCEPT !.pc = "while"]

\* for (const jobId of jobIds): a completed ID is skipped; for another the
\* status is fetched, or the fetch throws and the catch ignores it.
PageFetch ==
  /\ page.loop.pc = "for"
  /\ LET jobId == page.loop.jobIds[page.loop.k]
     IN \/ /\ jobId \in page.loop.completed
           /\ page' = [page EXCEPT !.loop = NextId(@)]
           /\ UNCHANGED statusResp
        \/ /\ jobId \notin page.loop.completed
           /\ page' = [page EXCEPT !.loop.pc = "fetching"]
           /\ statusResp' = NoStatusResp
        \/ /\ jobId \notin page.loop.completed
           /\ page.loop.throws < MaxThrows
           /\ page' = [page EXCEPT !.loop = [NextId(@) EXCEPT !.throws = @ + 1]]
           /\ UNCHANGED statusResp
  /\ UNCHANGED <<useMock, heap, jobs, jobsMu, task, gen, genResp, st, ls, listResp,
                 promptResp>>

\* The status request of the page reaches handleStatus.
PageStatusRequest ==
  /\ page.loop.pc = "fetching"
  /\ statusResp = NoStatusResp
  /\ st.pc = "idle"
  /\ \/ StatusNotFound /\ statusResp'.id = page.loop.jobIds[page.loop.k]
     \/ StatusLookup /\ st'.id = page.loop.jobIds[page.loop.k]

\* prev.map((v) => v.id === jobId ? {...v, status, video_url, error} : v)
UpdateVideos(videos, jobId, resp) ==
  [n \in 1..Len(videos) |->
     IF videos[n].id = jobId
       THEN [id |-> jobId, status |-> resp.status, video_url |-> resp.video_url]
       ELSE videos[n]]

\* const status = await statusRes.json(): completed and failed put the ID
\* into the set and the answer into the videos; any other answer, the
\* error of a 404 included, changes nothing.
PageStatusResponse ==
  /\ page.loop.pc = "fetching"
  /\ st.pc = "idle"
  /\ statusResp.code # 0
  /\ LET jobId == page.loop.jobIds[page.loop.k]
     IN page' = IF statusResp.status \in {"completed", "failed"}
                  THEN [page EXCEPT !.loop = [NextId(@) EXCEPT !.completed = @ \cup {jobId}],
                                    !.videos = UpdateVideos(@, jobId, statusResp)]
                  ELSE [page EXCEPT !.loop = NextId(@)]
  /\ UNCHANGED <<useMock, heap, jobs, jobsMu, task, gen, genResp, st, statusResp, ls,
                 listResp, promptResp>>

\* onClick of a card: video.status === "completed" && setSelectedVideo(id)
SelectVideo ==
  /\ \E n \in 1..Len(page.videos) :
       /\ page.videos[n].status = "completed"
       /\ page.videos[n].id # page.selectedVideo
       /\ page' = [page EXCEPT !.selectedVideo = page.videos[n].id]
  /\ UNCHANGED <<useMock, heap, jobs, jobsMu, task, gen, genResp, st, statusResp, ls,
                 listResp, promptResp>>

\* videos.find((v) => v.id === selectedVideo): the index of the first
\* video with the selected ID, 0 when there is none.
SelIndex ==
  IF \E n \in 1..Len(page.videos) : page.videos[n].id = page.selectedVideo
    THEN CHOOSE n \in 1..Len(page.videos) :
           /\ page.videos[n].id = page.selectedVideo
           /\ \A m \in 1..(n - 1) : page.videos[m].id # page.selectedVideo
    ELSE 0

\* The actions of the selected video are rendered.
ActionsShown ==
  /\ page.selectedVideo # ""
  /\ SelIndex # 0
  /\ page.videos[SelIndex].status = "completed"
  /\ page.videos[SelIndex].video_url # ""

InChain(chain, jobId) == \E n \in 1..Len(chain) : chain[n].jobId = jobId

\* "Continue (Add Segment)": startContinuation up to its first await; the
\* call keeps the chain of the render it was clicked in.
ClickContinue ==
  /\ ActionsShown
  /\ ~page.isContinuing /\ ~page.isGenerating
  /\ page.cont.pc = "idle"
  /\ page' = [page EXCEPT !.isContinuing = TRUE,
                          !.cont = [pc |-> "capturing",
                                    videoUrl |-> page.videos[SelIndex].video_url,
                                    jobId |-> page.videos[SelIndex].id,
                                    chain |-> page.chain]]
  /\ UNCHANGED <<useMock, heap, jobs, jobsMu, task, gen, genResp, st, statusResp, ls,
                 listResp, promptResp>>

\* startContinuation after captureLastFrame and uploadFrame: either threw,
\* or the filename of the uploaded frame is kept, the video is appended
\* with setChain((prev) => ...) unless the chain of the call has its job ID,
\* and the panel is shown.
ContinueResume ==
  /\ page.cont.pc = "capturing"
  /\ \E ok \in BOOLEAN :
       page' = IF ok
                 THEN [page EXCEPT
                         !.continuationFrameFilename = "frame.jpg",
                         !.chain = IF InChain(page.cont.chain, page.cont.jobId) THEN @
                                   ELSE Append(@, [videoUrl |-> page.cont.videoUrl,
                                                   jobId |-> page.cont.jobId]),
                         !.showContinuePanel = TRUE,
                         !.isContinuing = FALSE,
                         !.cont = NoCont]
                 ELSE [page EXCEPT !.isContinuing = FALSE, !.cont = NoCont]
  /\ UNCHANGED <<useMock, heap, jobs, jobsMu, task, gen, genResp, st, statusResp, ls,
                 listResp, promptResp>>

\* "Add to Chain", rendered while the chain is not empty and has not the
\* selected video: addToChain
ClickAddToChain ==
  /\ ActionsShown
  /\ Len(page.chain) > 0
  /\ ~InChain(page.chain, page.videos[SelIndex].id)
  /\ page' = [page EXCEPT !.chain = Append(@, [videoUrl |-> page.videos[SelIndex].video_url,
                                               jobId |-> page.videos[SelIndex].id]),
                          !.continuationFrameFilename = "",
                          !.showContinuePanel = FALSE]
  /\ UNCHANGED <<useMock, heap, jobs, jobsMu, task, gen, genResp, st, statusResp, ls,
                 listResp, promptResp>>

\* "Start Over" / "Clear all": reset
Reset ==
  /\ page' = [page EXCEPT !.pollingRef = FALSE, !.videos = <<>>, !.selectedVideo = "",
                          !.chain = <<>>, !.showContinuePanel = FALSE,
                          !.continuationFrameFilename = ""]
  /\ page' # page
  /\ UNCHANGED <<useMock, heap, jobs, jobsMu, task, gen, genResp, st, statusResp, ls,
                 listResp, promptResp>>

\* The server process is started again between two requests: the map jobs
\* is made anew and the goroutines are gone.
ServerRestart ==
  /\ Len(heap) > 0
  /\ gen.pc = "idle"
  /\ st.pc = "idle"
  /\ heap' = <<>>
  /\ jobs' = <<>>
  /\ task' = <<>>
  /\ jobsMu' = Unlocked
  /\ UNCHANGED <<useMock, gen, genResp, st, statusResp, ls, listResp, promptResp, page>>

\* The steps of a poll loop of the page: its awaits return.
LoopStep ==
  \/ PageReceive
  \/ PageWhile
  \/ PageFetch
  \/ PageStatusResponse

\* The steps of the handlers of the server for the requests of the page.
PageHandlerStep ==
  \/ PageGenerateRequest
  \/ GenerateStep
  \/ PageStatusRequest
  \/ StatusEncodeStatus
  \/ StatusEncodeVideoURL
  \/ StatusEncodeError

\* The steps of the goroutines of the jobs, in mock mode.
MockNext == \E p \in Pointers : MockStep(p)

InitMock == Init /\ useMock

\* The page with its chain, its user and the server it talks to, which
\* runs without API key.
NextPage ==
  \/ LoopStep
  \/ ContinueResume
  \/ ClickGenerate
  \/ ClickGenerateContinuation
  \/ SelectVideo
  \/ ClickContinue
  \/ ClickAddToChain
  \/ Reset
  \/ PageHandlerStep
  \/ MockNext

SpecPage == InitMock /\ [][NextPage]_vars

\* The page that generates and polls, and a server that can be started
\* again.
NextPoll ==
  \/ LoopStep
  \/ ClickGenerate
  \/ Reset
  \/ PageHandlerStep
  \/ MockNext
  \/ ServerRestart

\* The awaits of the page return, the server answers the requests it has
\* and its goroutines run; the user and a restart are not forced.
FairSpecPoll ==
  /\ InitMock /\ [][NextPoll]_vars
  /\ WF_vars(LoopStep)
  /\ SF_vars(PageHandlerStep)
  /\ SF_vars(MockNext)

\* The ranges: handleGenerate takes requests with every kind of count,
\* duration and ratio, for up to MaxJobs jobs; the goroutines it starts
\* have not run yet.
NextRanges ==
  \/ GenerateReject(RangeRequests)
  \/ GenerateAccept(RangeRequests, MaxJobs)
  \/ GenerateStep

SpecRanges == Init /\ [][NextRanges]_vars

\* The model-based variant: its handleGenerate takes every kind of request,
\* for up to MaxModelJobs jobs; the goroutines it starts have not run yet.
NextModel ==
  \/ ModelGenerateReject
  \/ ModelGenerateInsert
  \/ GenerateUnlock
  \/ GenerateGo
  \/ GenerateRespond

SpecModel == InitProd /\ [][NextModel]_vars

\* ------------------------------------------------------------------------
\* Properties
\* ------------------------------------------------------------------------
\* The goroutine of heap[p] is not inside its critical section.
Settled(p) == jobsMu.writer # TaskHolder(p)

\* The step is a status write of the goroutine of heap[p] (the Lock step of
\* completeJobWithVideo, setJobError or mockGenerate).
WritesStatus(p) ==
  /\ task[p].pc \in {"complete", "fail", "mock"}
  /\ task'[p].pc \in {"completing", "failing", "mocking"}

\* C1: once a job's status is completed or failed, no step changes it and
\* no step writes a status to the job again.
TerminalStatusNeverChanges ==
  [][\A p \in DOMAIN heap :
       heap[p].Status \in Terminal
         => heap'[p].Status = heap[p].Status /\ ~WritesStatus(p)]_vars

\* C1 happens: a job has ended and its goroutine has returned.
JobEnded == \E p \in DOMAIN heap : heap[p].Status \in Terminal /\ task[p].pc = "done"

\* C2: every job handleGenerate creates reaches completed or failed, when
\* every goroutine keeps being scheduled and every provider call returns.
EveryJobEnds ==
  \A p \in Pointers :
    (p \in DOMAIN heap) ~> (p \in DOMAIN heap /\ heap[p].Status \in Terminal)

\* C2 happens: a job ended by exhausting the poll attempts.
JobTimedOut ==
  \E p \in DOMAIN heap :
    heap[p].Status = "failed" /\ heap[p].Error = "Timed out waiting for video"

\* C3: a job whose status is completed or failed has exactly one of
\* VideoURL and Error non-empty (looked at outside the critical section
\* that writes them).
ExactlyOneOfVideoAndError ==
  \A p \in DOMAIN heap :
    heap[p].Status \in Terminal /\ Settled(p)
      => (heap[p].VideoURL # "") # (heap[p].Error # "")

\* C4: a failed job carries a non-empty error message (looked at outside
\* the critical section that writes it).
FailedJobHasError ==
  \A p \in DOMAIN heap :
    heap[p].Status = "failed" /\ Settled(p) => heap[p].Error # ""

\* C5: a status response that reports completed carries a video URL and
\* one that reports failed carries an error.
StatusResponseComplete ==
  statusResp.code = 200
    => /\ statusResp.status = "completed" => statusResp.video_url # ""
       /\ statusResp.status = "failed" => statusResp.error # ""

\* The job records the request of gen has created so far.
CreatedByRequest == Len(heap) - gen.first

\* C6 as claimed: an accepted request creates as many job records, and
\* lists as many job IDs, as its count clamped to 1..4.
JobCountIsClampedCount ==
  genResp.code = 200
    => LET c == gen.req.Count
           n == IF c < 1 THEN 1 ELSE IF c > 4 THEN 4 ELSE c
       IN CreatedByRequest = n /\ Len(genResp.job_ids) = n

\* C6, amended: an accepted request creates and inserts n job records and
\* lists their n IDs in creation order, where n is the count when it is
\* one of 1..4 and 4 for any other count.
JobCountIsCountOrDefault ==
  genResp.code = 200
    => LET c == gen.req.Count
           n == IF c \in 1..4 THEN c ELSE 4
       IN /\ CreatedByRequest = n
          /\ Len(genResp.job_ids) = n
          /\ genResp.count = n
          /\ \A k \in 1..n : genResp.job_ids[k] = heap[gen.first + k].ID

\* C6 happens: a request with a count outside 1..4 has been answered.
OutOfRangeCountAnswered == genResp.code = 200 /\ gen.req.Count \notin 1..4

\* C7: every job record has an ID of its own, so the map still leads to
\* every record ever inserted.
NoJobRecordHidden ==
  \A p \in DOMAIN heap : heap[p].ID \in DOMAIN jobs /\ jobs[heap[p].ID] = p

\* C8, the states: every job ID handleGenerate has noted or returned is in
\* the map, and so is the job of every goroutine that has been started.
ReturnedIDsInStore ==
  /\ \A k \in 1..Len(gen.jobIDs) : gen.jobIDs[k] \in DOMAIN jobs
  /\ \A k \in 1..Len(genResp.job_ids) : genResp.job_ids[k] \in DOMAIN jobs
  /\ \A p \in DOMAIN task : task[p].pc # "unstarted" => heap[p].ID \in DOMAIN jobs

\* C8, the steps: no step removes a key of the map, and handleStatus
\* answers "Job not found" only for an ID that is not in the map.
StoreOnlyGrows ==
  /\ DOMAIN jobs \subseteq DOMAIN jobs'
  /\ statusResp' # statusResp /\ statusResp'.code = 404 => statusResp'.id \notin DOMAIN jobs

\* C8: every job ID handleGenerate returns is resolvable by handleStatus
\* from its insert on: the job is in the map before its goroutine starts
\* and before the response, and no step removes it.
ReturnedIDsStayResolvable == []ReturnedIDsInStore /\ [][StoreOnlyGrows]_vars

\* C8 happens: handleStatus has answered for an ID handleGenerate returned.
ReturnedIDResolved ==
  /\ genResp.code = 200
  /\ statusResp.code = 200
  /\ \E k \in 1..Len(genResp.job_ids) : genResp.job_ids[k] = statusResp.id

\* Every filename a request carries, in any of its fields.
FilenamesOf(req) ==
  {req.Filenames[k] : k \in 1..Len(req.Filenames)}
  \cup {req.OriginalFilenames[k] : k \in 1..Len(req.OriginalFilenames)}
  \cup (IF req.IsContinuation THEN {req.LastFrameFilename} ELSE {})

\* The filenames a request would make image paths of.
UsedFilenamesOf(req) ==
  IF req.IsContinuation
    THEN {req.LastFrameFilename}
         \cup (IF req.Duration >= 6 /\ Len(req.OriginalFilenames) > 0
                 THEN {req.OriginalFilenames[1]} ELSE {})
  ELSE {req.Filenames[k] : k \in 1..Len(req.Filenames)}

\* handleGenerate has rejected the request of gen and created nothing for it.
RejectedBeforeAnyJob ==
  /\ gen.pc = "idle"
  /\ genResp.code = 400
  /\ CreatedByRequest = 0
  /\ \A p \in DOMAIN task : p > gen.first => task[p].pc = "unstarted"

\* C9 as claimed: a request that names a file missing on disk, in any of
\* its filename fields, is rejected before any job is created.
MissingFilenameRejected ==
  gen.req # NoReq /\ (\E fn \in FilenamesOf(gen.req) : ~StatOK(JoinUploads(fn)))
    => RejectedBeforeAnyJob

\* C9, amended: a request is rejected before any job is created when a
\* file it would make an image path of is missing on disk.
MissingUsedFilenameRejected ==
  gen.req # NoReq /\ (\E fn \in UsedFilenamesOf(gen.req) : ~StatOK(JoinUploads(fn)))
    => RejectedBeforeAnyJob

\* C9 happens: a request whose first filename exists and whose second is
\* missing has been rejected while the store holds jobs.
MissingSecondFilenameRejected ==
  /\ genResp.code = 400
  /\ Len(gen.req.Filenames) = 2
  /\ StatOK(JoinUploads(gen.req.Filenames[1]))
  /\ ~StatOK(JoinUploads(gen.req.Filenames[2]))
  /\ Len(heap) > 0

\* C10: after a poll response that reports an explicit error the goroutine
\* is never again in the poll loop: it marks the job failed and returns.
ErrorResponseEndsPolling ==
  \A p \in DOMAIN task :
    task[p].provErr
      => /\ task[p].pc \in {"fail", "failing", "done"}
         /\ task[p].pc = "done" => heap[p].Status = "failed"

\* C10 happens: a job is failed after an error response to a poll.
FailedAfterErrorResponse ==
  \E p \in DOMAIN task :
    task[p].provErr /\ task[p].pc = "done" /\ heap[p].Status = "failed"

\* The goroutine of heap[p] has left submit and poll for setJobError.
Failing(p) == task[p].pc \in {"fail", "failing", "done"}

\* The goroutine of heap[p] has left submit and poll for completeJobWithVideo.
Completing(p) == task[p].pc \in {"download", "complete", "completing", "done"}

TimeoutMessage == "Timed out waiting for video"

TimeoutStates ==
  \A p \in DOMAIN task :
    /\ task[p].i <= MaxPollAttempts
    /\ task[p].pc = "poll" => heap[p].Status = "processing"
    /\ task[p].errMsg = TimeoutMessage
         => /\ Failing(p)
            /\ task[p].pc = "done"
                 => heap[p].Status = "failed" /\ heap[p].Error = TimeoutMessage

\* C12, the steps: with the 120 attempts used up the next step of the
\* goroutine records the timeout message and sends no request, and the
\* timeout message is recorded by no other step.
TimeoutSteps ==
  \A p \in DOMAIN task :
    /\ task[p].pc = "poll" /\ task[p].i >= MaxPollAttempts /\ task'[p] # task[p]
         => /\ task'[p].pc = "fail"
            /\ task'[p].errMsg = TimeoutMessage
            /\ task'[p].polls = task[p].polls
            /\ task'[p].lastPoll = task[p].lastPoll
    /\ task'[p].errMsg = TimeoutMessage /\ task[p].errMsg # TimeoutMessage
         => task[p].pc = "poll" /\ task[p].i = MaxPollAttempts

\* C12: when none of the 120 poll attempts ends the loop, the job is failed
\* with "Timed out waiting for video" and no further poll is made.
BudgetExhaustedIsTimeout == []TimeoutStates /\ [][TimeoutSteps]_vars

\* C12 happens: a job is failed with the timeout message after its polls.
TimedOutAfterPolls ==
  \E p \in DOMAIN task :
    /\ task[p].pc = "done"
    /\ task[p].polls = MaxPollsCounted
    /\ task[p].lastPoll # NoPoll
    /\ heap[p].Error = TimeoutMessage

\* C13, the states: after a poll that got a transport error or an
\* unparseable body the job is processing and its goroutine in the poll
\* loop, or the goroutine has left the loop by the timeout.
SwallowedStates ==
  \A p \in DOMAIN task :
    task[p].lastPoll.kind = "unusable"
      => \/ task[p].pc = "poll" /\ heap[p].Status = "processing"
         \/ Failing(p) /\ task[p].errMsg = TimeoutMessage

\* C13, the steps: a poll that gets a transport error or an unparseable
\* body uses up one attempt, stays in the loop and writes nothing to a job.
SwallowedSteps ==
  \A p \in DOMAIN task :
    /\ task[p].pc = "poll"
    /\ task[p].i < MaxPollAttempts
    /\ task'[p] # task[p]
    /\ task'[p].lastPoll.kind = "unusable"
    => /\ task'[p].pc = "poll"
       /\ task'[p].i = task[p].i + 1
       /\ heap' = heap

\* C13: a transport error or an unparseable body on a poll leaves the job
\* processing and the goroutine polling; only the exhausted budget fails
\* the job after it.
TransportErrorsAreRetried == []SwallowedStates /\ [][SwallowedSteps]_vars

\* C13 happens: a goroutine polls on after a poll without a usable answer.
PollingAfterUnusableAnswer ==
  \E p \in DOMAIN task :
    task[p].pc = "poll" /\ task[p].lastPoll.kind = "unusable" /\ task[p].i >= 2

\* C14: when the submit response carries a result with status success and
\* a video URL, the goroutine goes on to completeJobWithVideo without a
\* poll request, and the job is completed when it has returned.
DirectResultSkipsPolling ==
  \A p \in DOMAIN task :
    task[p].submitVideo
      => /\ Completing(p)
         /\ task[p].polls = 0
         /\ task[p].lastPoll = NoPoll
         /\ task[p].pc = "done" => heap[p].Status = "completed"

\* C14 happens: a job is completed from its submit response.
CompletedWithoutPoll ==
  \E p \in DOMAIN task :
    /\ task[p].submitVideo
    /\ task[p].polls = 0
    /\ task[p].pc = "done"
    /\ heap[p].Status = "completed"

\* The request of the scenario: 2 valid images, style rotating, count 1.
TwoImageRequest == Req(<<"a.jpg", "b.jpg">>, "rotating", "9:16", "", 1, 5, FALSE, "", <<>>)

\* C15: the request with 2 valid images, style rotating and count 1
\* creates exactly one job; when the submit response of that job carried no
\* video and its first poll reports success with a video URL, the
\* goroutine goes on to completeJobWithVideo after that one poll, and the
\* job is completed with a non-empty VideoURL when it has returned.
TwoImageJobCompletesAfterOnePoll ==
  /\ gen.req = TwoImageRequest /\ genResp.code = 200
       => CreatedByRequest = 1 /\ Len(genResp.job_ids) = 1
  /\ \A p \in DOMAIN task :
       /\ task[p].req = TwoImageRequest
       /\ ~task[p].submitVideo
       /\ task[p].polls = 1
       /\ task[p].lastPoll.videos # {}
       /\ task[p].lastPoll.messages = {}
       => /\ Completing(p)
          /\ task[p].pc = "done"
               => heap[p].Status = "completed" /\ heap[p].VideoURL # ""

\* C15 happens: the job of the request is completed after one poll.
TwoImageJobCompleted ==
  \E p \in DOMAIN task :
    /\ task[p].req = TwoImageRequest
    /\ genResp.code = 200
    /\ ~task[p].submitVideo
    /\ task[p].polls = 1
    /\ task[p].pc = "done"
    /\ heap[p].Status = "completed"
    /\ heap[p].VideoURL # ""

\* The downloads that fail: the request fails, the response is an error
\* response, the local file cannot be created or cannot be written.
FailedDownloads == {"get failed", "saved error response", "create failed", "copy failed"}

\* C16: a job whose download or save failed is completed with the remote
\* URL as its VideoURL.
FailedDownloadKeepsRemoteURL ==
  \A p \in DOMAIN task :
    task[p].download \in FailedDownloads /\ task[p].pc = "done"
      => heap[p].Status = "completed" /\ heap[p].VideoURL = task[p].remoteURL

\* The frames of heap[p] have been built and its payload is ready.
FramesBuilt(p) == task[p].pc = "submit"

\* A frame of the payload.
Frame(path, role) == [inputImage |-> path, frame |-> <<role>>]

\* C17: for a job with 3 or more images the frames of the payload are the
\* first image with role first and the last image with role last.
ManyImagesGiveFirstAndLast ==
  \A p \in DOMAIN task :
    Len(heap[p].ImagePaths) >= 3 /\ FramesBuilt(p)
      => task[p].frameImages
           = <<Frame(heap[p].ImagePaths[1], "first"),
               Frame(heap[p].ImagePaths[Len(heap[p].ImagePaths)], "last")>>

\* C18: for a job with exactly one image the payload has one frame, that
\* image, with role last when the style is unboxing and first for any
\* other style.
OneImageRoleFollowsStyle ==
  \A p \in DOMAIN task :
    Len(heap[p].ImagePaths) = 1 /\ FramesBuilt(p)
      => task[p].frameImages
           = <<Frame(heap[p].ImagePaths[1],
                     IF heap[p].Style = "unboxing" THEN "last" ELSE "first")>>

\* C18 happens: the frame of a one-image job with an unknown style has
\* been built.
OneImageFrameBuilt ==
  \E p \in DOMAIN task :
    /\ FramesBuilt(p)
    /\ ~task[p].req.IsContinuation
    /\ Len(heap[p].ImagePaths) = 1
    /\ heap[p].Style \notin StyleNames

\* C19: for a job of a continuation request the first frame of the payload
\* is the captured last frame with role first.
CapturedFrameIsFirst ==
  \A p \in DOMAIN task :
    task[p].req.IsContinuation /\ FramesBuilt(p)
      => /\ Len(task[p].frameImages) >= 1
         /\ task[p].frameImages[1]
              = Frame(JoinUploads(task[p].req.LastFrameFilename), "first")

\* C20: a job of a continuation request with a duration below 6 has one
\* image path, the captured frame, and its payload one frame, that image.
NoAnchorBelowThreshold ==
  \A p \in DOMAIN task :
    task[p].req.IsContinuation /\ task[p].req.Duration < 6
      => /\ heap[p].ImagePaths = <<JoinUploads(task[p].req.LastFrameFilename)>>
         /\ FramesBuilt(p)
              => /\ Len(task[p].frameImages) = 1
                 /\ task[p].frameImages[1].inputImage
                      = JoinUploads(task[p].req.LastFrameFilename)

\* C20 happens: the frames of a continuation below the threshold that
\* names original images have been built.
ShortContinuationFramesBuilt ==
  \E p \in DOMAIN task :
    /\ task[p].req.IsContinuation
    /\ task[p].req.Duration < 6
    /\ Len(task[p].req.OriginalFilenames) > 0
    /\ FramesBuilt(p)

\* The captured frame and the first original image of the request of heap[p].
CapturedPath(p) == JoinUploads(task[p].req.LastFrameFilename)
AnchorPath(p) == JoinUploads(task[p].req.OriginalFilenames[1])

\* C21: a job of a continuation request with a duration of at least 6 and
\* an original image has the captured frame and the first original image
\* as image paths, and its payload the captured frame with role first and
\* then that original image with role last; a job of any other continuation
\* request has the captured frame alone, in its paths and in its payload.
AnchorOnlyFromThreshold ==
  \A p \in DOMAIN task :
    task[p].req.IsContinuation
      => IF task[p].req.Duration >= 6 /\ Len(task[p].req.OriginalFilenames) >= 1
           THEN /\ heap[p].ImagePaths = <<CapturedPath(p), AnchorPath(p)>>
                /\ FramesBuilt(p)
                     => task[p].frameImages
                          = <<Frame(CapturedPath(p), "first"), Frame(AnchorPath(p), "last")>>
           ELSE /\ heap[p].ImagePaths = <<CapturedPath(p)>>
                /\ FramesBuilt(p)
                     => /\ Len(task[p].frameImages) = 1
                        /\ task[p].frameImages[1].inputImage = CapturedPath(p)

\* C21 happens: the frames of a continuation of 8 seconds that names two
\* original images have been built.
AnchoredContinuationFramesBuilt ==
  \E p \in DOMAIN task :
    /\ task[p].req.IsContinuation
    /\ task[p].req.Duration >= 6
    /\ Len(task[p].req.OriginalFilenames) = 2
    /\ FramesBuilt(p)
    /\ Len(task[p].frameImages) = 2

\* C22: a continuation request with an empty last_frame_filename, or with
\* one that names no file on disk, is rejected with an error message and
\* no job is created for it.
ContinuationNeedsCapturedFrame ==
  /\ gen.req # NoReq
  /\ gen.req.IsContinuation
  /\ \/ gen.req.LastFrameFilename = ""
     \/ ~StatOK(JoinUploads(gen.req.LastFrameFilename))
  => RejectedBeforeAnyJob /\ genResp.error # ""

\* C22 happens: a continuation without last_frame_filename whose other
\* fields name existing files has been rejected while the store holds jobs.
ContinuationWithoutFrameRejected ==
  /\ genResp.code = 400
  /\ gen.req.IsContinuation
  /\ gen.req.LastFrameFilename = ""
  /\ Len(gen.req.Filenames) > 0
  /\ Len(heap) > 0

\* C23: a job whose style is not in styleConfigs exists, its prompt is the
\* prompt of cinematic (with the custom prompt after it), its model name
\* that of cinematic, and the model of its payload the model of cinematic.
UnknownStyleIsCinematic ==
  \A p \in DOMAIN task :
    heap[p].Style \notin StyleNames
      => /\ heap[p].Prompt
              = IF task[p].req.CustomPrompt = "" THEN styleConfigs["cinematic"].Prompt
                ELSE styleConfigs["cinematic"].Prompt \o " " \o task[p].req.CustomPrompt
         /\ heap[p].Model = styleConfigs["cinematic"].ModelName
         /\ FramesBuilt(p) => task[p].runwareModel = styleConfigs["cinematic"].Model

\* C23: no request is rejected for its style: a request that names an
\* unknown style and is rejected is rejected with it replaced by cinematic.
UnknownStyleNotRejected ==
  /\ UnknownStyleIsCinematic
  /\ gen.req # NoReq /\ gen.req.Style \notin StyleNames /\ genResp.code = 400
       => ValidationError([gen.req EXCEPT !.Style = "cinematic"]) # ""

\* C23 happens: the payload of a job with the empty style and a custom
\* prompt has been built after the request was answered.
UnknownStylePayloadBuilt ==
  \E p \in DOMAIN task :
    /\ heap[p].Style = ""
    /\ task[p].req.CustomPrompt # ""
    /\ FramesBuilt(p)
    /\ genResp.code = 200

\* C24: a request to the model-based handleGenerate whose model is no key
\* of availableModels is rejected with an error message, no job is created
\* for it and no goroutine started.
UnknownModelRejected ==
  gen.req # NoReq /\ gen.req.Model \notin DOMAIN availableModels
    => RejectedBeforeAnyJob /\ genResp.error # ""

\* C24, the steps: the step that answers 400 leaves the store as it is.
RejectionLeavesStore ==
  genResp'.code = 400 /\ genResp' # genResp
    => heap' = heap /\ jobs' = jobs /\ task' = task

\* C24 with the store: the unknown model is rejected before any job, and
\* the rejection changes neither the store nor a goroutine.
UnknownModelRejectedStoreKept == []UnknownModelRejected /\ [][RejectionLeavesStore]_vars

\* C24 happens: a request with existing files and an unknown model has been
\* rejected while the store holds jobs.
UnknownModelRequestRejected ==
  /\ genResp.code = 400
  /\ genResp.error = "Unknown model: sora:1@1"
  /\ Len(heap) > 0

\* The request with its count, duration and ratio moved to the nearest
\* supported value.
InRange(req) ==
  [req EXCEPT !.Count = IF @ < 1 THEN 1 ELSE IF @ > 4 THEN 4 ELSE @,
              !.Duration = IF @ < 1 THEN 1 ELSE IF @ > 16 THEN 16 ELSE @,
              !.Ratio = IF @ \in {"9:16", "16:9", "1:1"} THEN @ ELSE "9:16"]

LlmFailed == promptResp.llm \in {"transport", "status", "unparseable", "no choices"}

\* C26, the answer: after a failed call of the model runner the answer is
\* the status 500 with an error message and without a prompt.
LlmFailureIsAnError ==
  LlmFailed => /\ promptResp.code = 500
               /\ Len(promptResp.error) = 1
               /\ promptResp.error[1] # ""
               /\ promptResp.prompt = <<>>

\* C26, the prompt: a prompt that is answered is never the prompt of a style
\* while the model runner gave none.
NoPromptFallback ==
  Len(promptResp.prompt) = 1
    => /\ promptResp.llm = "ok"
       /\ promptResp.code = 200

\* C26, the store: the step of handleAutoPrompt leaves every job, the
\* index of the jobs and every goroutine as they were.
AutoPromptLeavesJobs ==
  promptResp' # promptResp => /\ heap' = heap
                              /\ jobs' = jobs
                              /\ task' = task

\* C26: a failed call of the vision model is answered with an error and no
\* prompt, never with a substitute prompt, and no job is created or changed.
LlmFailureSurfaces ==
  /\ [](LlmFailureIsAnError /\ NoPromptFallback)
  /\ [][AutoPromptLeavesJobs]_vars

\* C26 happens: the model runner answered without choices while a job sat
\* in the store, and the handler answered the error.
LlmFailureAnswered ==
  /\ promptResp.llm = "no choices"
  /\ promptResp.code = 500
  /\ Len(heap) > 0

\* The errors of the loop of runwareGenerate that reads the images.
ImageReadErrors == {"Failed to read image 1", "Failed to read image 2"}

\* C27: no job is failed because its goroutine could not read one of its
\* images; handleGenerate found every such image before it created a job.
NoJobFailsOnImageRead ==
  \A p \in DOMAIN heap :
    /\ task[p].errMsg \notin ImageReadErrors
    /\ heap[p].Status = "failed" => heap[p].Error \notin ImageReadErrors

\* The fields of a job that are set when it is created.
CreationFields(job) ==
  <<job.ID, job.ImagePaths, job.Prompt, job.Style, job.Ratio, job.Duration, job.Model,
    job.CreatedAt>>

\* C28, the fields: a step changes no creation field of a job in the store.
CreationFieldsKept ==
  \A p \in DOMAIN heap : CreationFields(heap'[p]) = CreationFields(heap[p])

\* C28, the writer: a step that changes a job in the store is a step of the
\* goroutine of that job, taken with the write lock in its hands; no
\* handler and no other goroutine moves in it.
OnlyOwnTaskWrites ==
  \A p \in DOMAIN heap :
    heap'[p] # heap[p]
      => /\ task'[p].pc # task[p].pc
         /\ jobsMu.writer = TaskHolder(p) \/ jobsMu'.writer = TaskHolder(p)
         /\ \A q \in DOMAIN task : q # p => task'[q] = task[q]
         /\ gen' = gen /\ genResp' = genResp
         /\ st' = st /\ statusResp' = statusResp

Listing == ls.pc # "idle"

\* What the encoding of a job shows of it.
JobView(job) ==
  [id |-> job.ID, status |-> job.Status, video_url |-> job.VideoURL, error |-> job.Error]

\* C29, the reader: while handleListJobs ranges over the map and encodes
\* the list it holds the read lock, and nobody holds the write lock.
ListHoldsReadLock ==
  Listing => jobsMu.readers > 0 /\ jobsMu.writer = NoHolder

\* C29, the writers: a step that inserts a job or changes one is taken with
\* the write lock held, and never while a list is made.
WritesHoldWriteLock ==
  (heap' # heap \/ jobs' # jobs)
    => /\ jobsMu.writer # NoHolder \/ jobsMu'.writer # NoHolder
       /\ ~Listing /\ ls' = ls

\* C29, the snapshot: the list that is answered shows every job of the map
\* once, each as it is in the store at that moment.
ListIsSnapshot ==
  listResp' # listResp /\ listResp'.code = 200
    => /\ Len(listResp'.jobs) = Cardinality(DOMAIN jobs)
       /\ \A k \in 1..Len(listResp'.jobs) :
            /\ listResp'.jobs[k] = JobView(heap[ls.list[k]])
            /\ jobs[listResp'.jobs[k].id] = ls.list[k]

\* C29: handleListJobs ranges and encodes under the read lock, inserts and
\* job writes happen under the write lock and never during a list, and
\* every listed job is shown as one state of the store.
ListNeverRacesWriters ==
  /\ []ListHoldsReadLock
  /\ [][WritesHoldWriteLock /\ ListIsSnapshot]_vars

\* C29 happens: a goroutine waits for the write lock to fail its job while
\* the list with that job is encoded.
WriterWaitsForList ==
  /\ ls.pc = "Error"
  /\ \E p \in DOMAIN heap : task[p].pc = "fail" /\ ls.list = <<p>>

\* The submit call of the goroutine of heap[p] failed: no response, a
\* status other than 200, or a body that does not parse.
SubmitFailed(p) == task[p].submit \in {"transport", "status", "garbage"}

\* The messages runwareGenerate gives to the failures of its submit call.
SubmitErrors ==
  {"Runware API error: timeout", "Runware API 500: internal error",
   "Failed to parse response: invalid character"}

\* C30, the job: after a failed submit call the goroutine goes to
\* setJobError with a message of that failure and has made no poll; once it
\* is done the job is failed with that message.
SubmitFailureOnJob ==
  \A p \in DOMAIN heap :
    SubmitFailed(p)
      => /\ Failing(p)
         /\ task[p].errMsg \in SubmitErrors
         /\ task[p].polls = 0 /\ task[p].lastPoll = NoPoll
         /\ task[p].pc = "done"
              => /\ heap[p].Status = "failed"
                 /\ heap[p].Error = task[p].errMsg
                 /\ heap[p].VideoURL = ""

\* C30, the response: a response with job IDs carries no error, and no
\* response carries a message of the submit call.
SubmitFailureNotInResponse ==
  /\ genResp.code = 200 => genResp.error = "" /\ Len(genResp.job_ids) = genResp.count
  /\ genResp.error \notin SubmitErrors

\* C30, no waiting: once the goroutines are started the response can be
\* sent, whatever state they are in.
ResponseDoesNotWait ==
  /\ gen.pc = "respond" => ENABLED GenerateRespond
  /\ gen.pc = "go" => ENABLED GenerateGo

\* C30: a failed submit call fails the job with a message and without a
\* poll, and handleGenerate answers the job IDs without it and without
\* waiting for a goroutine.
SubmitFailureStaysOnJob ==
  SubmitFailureOnJob /\ SubmitFailureNotInResponse /\ ResponseDoesNotWait

\* C30 happens: the job IDs were answered and the job of the request is
\* failed with the message of a submit call that got no response.
SubmitFailureRecorded ==
  /\ genResp.code = 200
  /\ \E p \in DOMAIN heap :
       /\ task[p].submit = "transport"
       /\ heap[p].ID = genResp.job_ids[1]
       /\ heap[p].Status = "failed"
       /\ heap[p].Error = "Runware API error: timeout"

\* C31: a job whose submit response, read with status 200, reports an
\* explicit failure of the provider goes to setJobError at once, before
\* any poll response is read.
SubmitErrorFailsAtOnce ==
  \A p \in DOMAIN heap :
    task[p].submitError /\ ~task[p].submitVideo
      => /\ Failing(p)
         /\ task[p].polls = 0
         /\ task[p].pc = "done" => heap[p].Status = "failed"

\* The goroutine of heap[p] is in completeJobWithVideo.
InComplete(p) == task[p].pc \in {"download", "complete", "completing"}

\* C32, the record: a completed job, looked at outside the critical
\* section that completes it, has a VideoURL and no Error.
CompletedHasVideoAndNoError ==
  \A p \in DOMAIN heap :
    heap[p].Status = "completed" /\ Settled(p)
      => heap[p].VideoURL # "" /\ heap[p].Error = ""

\* C32, the cause: a goroutine is in completeJobWithVideo, or has completed
\* its job through it, only with the video URL of a response that carried
\* one.
CompletionNeedsVideo ==
  \A p \in DOMAIN heap :
    InComplete(p) \/ (heap[p].Status = "completed" /\ ~useMock)
      => /\ task[p].remoteURL # ""
         /\ task[p].submitVideo \/ task[p].lastPoll.videos # {}

\* C32, the responses: a response without a result that has status success
\* and a video URL completes nothing, read as submit response or as poll
\* response.
BareSuccessNeverCompletes ==
  \A resp \in Responses :
    ~CarriesVideo(resp)
      => SubmitOutcome(resp).do # "complete" /\ PollOutcome(resp).do # "complete"

\* C32, the list: the list of the jobs shows a completed job with a video
\* URL and without an error.
ListedCompletedHasVideo ==
  \A k \in 1..Len(listResp.jobs) :
    listResp.jobs[k].status = "completed"
      => listResp.jobs[k].video_url # "" /\ listResp.jobs[k].error = ""

\* C32: a completed job has a non-empty VideoURL and an empty Error, and a
\* response that reports success without a video URL never completes a job:
\* the goroutine polls on.
CompletedMeansVideo ==
  /\ CompletedHasVideoAndNoError
  /\ CompletionNeedsVideo
  /\ BareSuccessNeverCompletes
  /\ ListedCompletedHasVideo

\* C32 happens: the list shows a job completed after a poll response with a
\* video URL.
CompletedJobListed ==
  /\ listResp.code = 200
  /\ Len(listResp.jobs) = 1
  /\ listResp.jobs[1].status = "completed"
  /\ \E p \in DOMAIN heap : heap[p].ID = listResp.jobs[1].id /\ task[p].lastPoll.videos # {}

\* The step is the submit of the goroutine of heap[p], one iteration of its
\* poll loop, or its download.
SubmitStep(p) == task[p].pc = "submit" /\ task'[p] # task[p]
PollStep(p) == task[p].pc = "poll" /\ task[p].i < MaxPollAttempts /\ task'[p] # task[p]
DownloadStep(p) == task[p].pc = "download" /\ task'[p] # task[p]

\* C33, the positions: the loop variable of pollResult stays within the
\* budget, and a job whose status is completed or failed has its goroutine
\* past every request to the provider.
RequestsEndWithStatus ==
  \A p \in DOMAIN heap :
    /\ task[p].i \in 0..MaxPollAttempts
    /\ heap[p].Status \in Terminal
         => task[p].pc \in {"completing", "failing", "mocking", "done"}

\* C33, the steps: the submit request is sent once, a poll request only
\* with an attempt left and counted when the loop goes on, the loop is
\* entered once and from the submit, the download request is sent once,
\* and each of them while the job is processing.
RequestsAreCounted ==
  \A p \in DOMAIN heap :
    /\ SubmitStep(p)
         => task[p].submit = "none" /\ task[p].polls = 0 /\ task[p].download = "none"
    /\ PollStep(p) => /\ task[p].download = "none"
                      /\ task'[p].pc = "poll" => task'[p].i = task[p].i + 1
    /\ task[p].pc = "poll" /\ task'[p].pc = "poll" => task'[p].i >= task[p].i
    /\ task'[p].pc = "poll" /\ task[p].pc # "poll" => task[p].pc = "submit" /\ task'[p].i = 0
    /\ DownloadStep(p) => task[p].download = "none"
    /\ SubmitStep(p) \/ PollStep(p) \/ DownloadStep(p) => heap[p].Status = "processing"

\* C33: the goroutine of a job sends at most one submit request, at most
\* 120 poll requests and at most one download request, and none once the
\* job is completed or failed.
ProviderRequestsBounded == []RequestsEndWithStatus /\ [][RequestsAreCounted]_vars

\* C33 happens: a job is completed after its submit request, more than one
\* poll request and a download request.
PolledJobDownloaded ==
  \E p \in DOMAIN heap :
    /\ task[p].pc = "done"
    /\ heap[p].Status = "completed"
    /\ task[p].submit = "json"
    /\ task[p].polls = MaxPollsCounted
    /\ task[p].download = "saved"

\* C34: a job of a continuation request has a second image, the anchor,
\* only if the duration it records is 6 seconds or more.
AnchorOnlyWithRecordedDuration ==
  \A p \in DOMAIN heap :
    task[p].req.IsContinuation /\ Len(heap[p].ImagePaths) > 1
      => heap[p].Duration >= AnchorMinDuration

\* The goroutine of heap[p] is at a request to the provider: the submit,
\* a poll, or the download of the video.
AtProvider(p) == task[p].pc \in {"submit", "poll", "download"}

\* C35, the positions: a goroutine holds the write lock only between the
\* two writes of completeJobWithVideo, setJobError or mockGenerate, where
\* its next step, the unlock, needs nothing but the goroutine itself; at a
\* request to the provider it holds no lock.
LockOnlyAroundWrites ==
  \A p \in DOMAIN heap :
    /\ AtProvider(p) => jobsMu.writer # TaskHolder(p)
    /\ jobsMu.writer = TaskHolder(p)
         => /\ task[p].pc \in {"completing", "failing", "mocking"}
            /\ ENABLED (CompleteUnlock(p) \/ SetJobErrorUnlock(p) \/ MockUnlock(p))

\* C35, the handlers: while no goroutine is between its two writes, the
\* read lock can be taken, and handleGenerate can insert when no handler
\* holds the lock, whatever the provider is asked.
HandlersNotBlockedByProvider ==
  (\A p \in DOMAIN heap : task[p].pc \notin {"completing", "failing", "mocking"})
    => /\ jobsMu.writer \in {NoHolder, GenHolder}
       /\ jobsMu.writer = NoHolder => CanRLock
       /\ jobsMu.writer = NoHolder /\ jobsMu.readers = 0 => CanLock

\* C35, the steps: a request to the provider is made without the lock and
\* leaves the lock and the jobs as they are.
ProviderStepsLeaveLock ==
  \A p \in DOMAIN heap :
    SubmitStep(p) \/ PollStep(p) \/ DownloadStep(p)
      => /\ jobsMu.writer # TaskHolder(p)
         /\ jobsMu' = jobsMu /\ heap' = heap /\ jobs' = jobs

FileWritten(p) == task[p].download \in {"saved", "saved error response", "copy failed"}

\* C36, the record: while the goroutine downloads, its job is processing
\* without VideoURL; a job has the local URL only after the file was
\* written, and is completed by runwareGenerate only after the download
\* attempt.
DownloadBeforeCompleted ==
  \A p \in DOMAIN heap :
    /\ task[p].pc = "download"
         => /\ heap[p].Status = "processing"
            /\ heap[p].VideoURL = ""
            /\ task[p].download = "none"
    /\ heap[p].VideoURL = LocalURL(heap[p].ID) => FileWritten(p)
    /\ heap[p].Status = "completed" /\ ~useMock => task[p].download # "none"

\* C36, the observer: a status response with the local URL, or one that
\* reports completed outside mock mode, is for a job whose download has
\* ended.
StatusAfterDownload ==
  statusResp.code = 200
    => \A p \in DOMAIN heap :
         heap[p].ID = statusResp.id
           => /\ statusResp.video_url = LocalURL(heap[p].ID) => FileWritten(p)
              /\ statusResp.status = "completed" /\ ~useMock => task[p].download # "none"

\* C36, the answer: a status response that is sent while the goroutine of
\* the job downloads reports processing and no video URL.
ProcessingWhileDownloading ==
  statusResp' # statusResp /\ statusResp'.code = 200 /\ st.job \in DOMAIN task
    => (task[st.job].pc = "download"
          => statusResp'.status = "processing" /\ statusResp'.video_url = "")

\* C36: a job is seen completed with the local video URL only after the
\* download attempt and the write of the file have ended; while the video
\* is downloaded the job is reported as processing.
CompletedOnlyAfterDownload ==
  /\ [](DownloadBeforeCompleted /\ StatusAfterDownload)
  /\ [][ProcessingWhileDownloading]_vars

\* C36 happens: the status of a job was answered as processing while its
\* goroutine is at the download.
ProcessingAnsweredDuringDownload ==
  /\ statusResp.code = 200
  /\ statusResp.status = "processing"
  /\ st.pc = "idle"
  /\ \E p \in DOMAIN heap : heap[p].ID = statusResp.id /\ task[p].pc = "download"

\* C37: every poll loop the page starts ends: after the generating flag
\* is set it is cleared again.
GeneratingEventuallyEnds == page.isGenerating ~> ~page.isGenerating

\* C38: every segment of the chain has a video reference, and no two
\* segments of the chain have the same jobId.
ChainHasNoDuplicateJob ==
  /\ \A n \in 1..Len(page.chain) : page.chain[n].videoUrl # ""
  /\ \A n, m \in 1..Len(page.chain) : n # m => page.chain[n].jobId # page.chain[m].jobId

====
